---- MODULE Spec2Model ----
(***************************************************************************)
(* i3 command layer (src/src/commands.c): the criteria functions that      *)
(* resolve a Match into the list of containers a command works on, the     *)
(* command handlers that consume that list, the tiling/floating resize,    *)
(* and the parameter capture of the parser migration test.                 *)
(*                                                                         *)
(* C strings are TLA+ strings; a char* that may be NULL is the empty       *)
(* tuple (NULL) or a one-element tuple holding the string.  A Con* is the  *)
(* container's address, a positive integer; the null pointer is 0.         *)
(* Percentages are exact multiples of 1/PercentScale.                      *)
(***************************************************************************)
EXTENDS Integers, Sequences, FiniteSets, TLC

VARIABLES
    cons,             \* the container tree: address -> fields of the Con
    all_cons,         \* the global list of all containers, in list order
    focused,          \* the focused container
    current_match,    \* the parser's Match for the current command
    owindows,         \* the static list of containers a command works on
    migration_test,   \* static bool migration_test
    new_stackframes,  \* parameters saved by the new parser's calls
    old_stackframes,  \* parameters saved by the old parser's calls
    pc,               \* where the parser is within the current command line
    ncrit,            \* criteria added within the current brackets
    nlines,           \* command lines accepted so far
    reply,            \* what the last handler returned
    call,             \* the last command handler call: arguments, locals, log
    before,           \* the container tree on entry to that call
    migration_pid,    \* static pid_t migration_pid
    ev_version_major, \* EV_VERSION_MAJOR of the libev the build uses
    nagbar,           \* pid -> state of the i3-nagbar process with that pid
    child_watchers,   \* pids with a started ev_child watcher
    cleanup_watchers, \* number of started ev_cleanup watchers
    killed,           \* the SIGKILLs sent: pid and state of its process
    validation,       \* what the last cmd_MIGRATION_validate found and did
    harness_before,   \* flag and buffers on entry to the last enable/disable
    outputs,          \* the list of outputs: name, rect and content container
    config,           \* the fields of Config the handlers read
    previous_workspace_name  \* the workspace back_and_forth returns to

\* The state of the diagnostic process and the records of the harness calls.
harnessvars == <<migration_pid, ev_version_major, nagbar, child_watchers,
                 cleanup_watchers, killed, validation, harness_before>>

\* What the handlers read of outputs, configuration and workspaces.
envvars == <<outputs, config, previous_workspace_name>>

vars == <<cons, all_cons, focused, current_match, owindows, migration_test,
          new_stackframes, old_stackframes, pc, ncrit, nlines, reply, call,
          before, harnessvars, envvars>>

---------------------------------------------------------------------------
(* Bounds of the model. *)

\* criteria inside one pair of brackets
MaxCriteria == 2
\* command lines of one run of the resize specification, and passes of a
\* parser over a command line in the migration test
MaxLines == 2
\* i3-nagbar processes started in one run
MaxNagbars == 2
\* frames in one buffer handed to the validation
MaxFrames == 2

---------------------------------------------------------------------------
(* Values. *)

NULL == 0
NoStr == <<>>
Str(s) == <<s>>

\* percent is kept in units of 1/PercentScale: 1/children is exact for the
\* child counts of the tree below, and so is ppt/100.
PercentScale == 12 * 100
PptUnit == PercentScale \div 100

Max(a, b) == IF a < b THEN b ELSE a
Abs(a) == IF a < 0 THEN 0 - a ELSE a

InSeq(x, s) == \E i \in 1..Len(s) : s[i] = x

---------------------------------------------------------------------------
(* The container tree.  commands.c reads and writes the fields of Con and  *)
(* walks parent, nodes_head and all_cons; the tree itself is built by code *)
(* outside this file.                                                      *)
(*                                                                         *)
(*   CONTENT --+-- WS1 --+-- WIN_A                                         *)
(*             |         +-- SPLIT --+-- WIN_B                             *)
(*             |         |           +-- WIN_C                             *)
(*             |         +-- WIN_D                                         *)
(*             |         +.. FLOAT ---- WIN_F      (floating_head)         *)
(*             +-- WS2                                                     *)
(*   CONTENT2 ---- WS3                          (on the second output)     *)
(***************************************************************************)

CONTENT == 1
WS1 == 2
WIN_A == 3
SPLIT == 4
WIN_B == 5
WIN_C == 6
WIN_D == 7
WS2 == 8
FLOAT == 9
WIN_F == 10
CONTENT2 == 11
WS3 == 12

Cons == {CONTENT, WS1, WIN_A, SPLIT, WIN_B, WIN_C, WIN_D, WS2, FLOAT, WIN_F,
         CONTENT2, WS3}

\* Width and height of an output.
OutputSize == 10

\* border_style_t
BS_NORMAL == 0
BS_NONE == 1
BS_1PIXEL == 2

NoWindow == <<>>
Window(class, instance, role, title, id) ==
    << [class |-> class, instance |-> instance, role |-> role,
        title |-> title, id |-> id] >>

Rect(x, y, width, height) == [x |-> x, y |-> y, width |-> width, height |-> height]

Con(type, parent, nodes, window) ==
    [type |-> type, parent |-> parent, nodes |-> nodes, window |-> window,
     orientation |-> "NO_ORIENTATION", layout |-> "L_DEFAULT",
     percent |-> 0, mark |-> NoStr, border_style |-> BS_NORMAL,
     rect |-> Rect(0, 0, 0, 0), name |-> "", fullscreen_mode |-> "CF_NONE",
     focus_head |-> nodes, closing |-> FALSE]

\* A workspace and its name.
Workspace(parent, nodes, name) ==
    [Con("CT_WORKSPACE", parent, nodes, NoWindow) EXCEPT !.name = name]

\* The tree before orientation, layout, percent and marks are chosen.
BaseTree ==
    [c \in Cons |->
        CASE c = CONTENT -> Con("CT_CON", NULL, <<WS1, WS2>>, NoWindow)
          [] c = WS1     ->
                [Workspace(CONTENT, <<WIN_A, SPLIT, WIN_D>>, "1")
                    EXCEPT !.focus_head = <<WIN_A, SPLIT, WIN_D, FLOAT>>]
          [] c = WS2     -> Workspace(CONTENT, <<>>, "2")
          [] c = CONTENT2 ->
                [Con("CT_CON", NULL, <<WS3>>, NoWindow)
                    EXCEPT !.rect = Rect(OutputSize, 0, 0, 0)]
          [] c = WS3     ->
                [Workspace(CONTENT2, <<>>, "3")
                    EXCEPT !.rect = Rect(OutputSize, 0, 0, 0)]
          [] c = SPLIT   -> Con("CT_CON", WS1, <<WIN_B, WIN_C>>, NoWindow)
          [] c = WIN_A   -> Con("CT_CON", WS1, <<>>,
                                Window(Str("xterm"), Str("main"), NoStr, Str("mail"), 21))
          [] c = WIN_B   -> Con("CT_CON", SPLIT, <<>>,
                                Window(Str("firefox"), Str("nav"), Str("browser"), Str("mail"), 22))
          [] c = WIN_C   -> Con("CT_CON", SPLIT, <<>>,
                                Window(Str("term"), Str("nav"), NoStr, Str("vim"), 23))
          [] c = WIN_D   -> Con("CT_CON", WS1, <<>>,
                                Window(Str("firefox"), NoStr, NoStr, Str("news"), 24))
          [] c = FLOAT   -> Con("CT_FLOATING_CON", WS1, <<WIN_F>>, NoWindow)
          [] c = WIN_F   -> Con("CT_CON", FLOAT, <<>>,
                                Window(Str("xterm"), Str("pop"), Str("popup"), Str("vim"), 25))]

\* Orientation and layout of the split containers.  A workspace is split
\* horizontally or vertically; the content container above the workspaces
\* keeps the orientation it was created with.
Shaped(tr, contentOrientation, wsOrientation, splitOrientation, splitLayout) ==
    [c \in Cons |->
        CASE c = CONTENT      -> [tr[c] EXCEPT !.orientation = contentOrientation]
          [] c \in {WS1, WS2} -> [tr[c] EXCEPT !.orientation = wsOrientation]
          [] c = SPLIT        -> [tr[c] EXCEPT !.orientation = splitOrientation,
                                               !.layout = splitLayout]
          [] OTHER            -> tr[c]]

con_num_children(tr, c) == Len(tr[c].nodes)

\* The percent fields on entry: all unset; every child at 1/children; or
\* a tree restored from a layout file that gives some children a percent
\* and leaves the others unset.
\* The tree after `layout stacking` or `layout tabbed` with the focus on a
\* child of the first workspace.
WorkspaceLayout(tr, layout) == [tr EXCEPT ![WS1].layout = layout]

Percents(tr, cfg) ==
    [c \in Cons |->
        IF tr[c].parent = NULL \/ ~InSeq(c, tr[tr[c].parent].nodes) THEN tr[c]
        ELSE CASE cfg = "unset" -> tr[c]
               [] cfg = "even"  ->
                    [tr[c] EXCEPT !.percent =
                        PercentScale \div con_num_children(tr, tr[c].parent)]
               [] cfg = "file"  ->
                    [tr[c] EXCEPT !.percent =
                        IF tr[tr[c].parent].nodes[1] = c THEN 0 ELSE 4 * PptUnit]]

\* The marks on entry.
Marks(tr, cfg) ==
    [c \in Cons |->
        CASE cfg = "marked" /\ c = WIN_A -> [tr[c] EXCEPT !.mark = Str("m1")]
          [] cfg = "marked" /\ c = WIN_B -> [tr[c] EXCEPT !.mark = Str("x")]
          [] cfg = "marked" /\ c = SPLIT -> [tr[c] EXCEPT !.mark = Str("m2")]
          [] OTHER -> tr[c]]

\* all_cons in list order.
AllConsList == <<CONTENT, WS1, WS2, WIN_A, WIN_B, SPLIT, WIN_C, WIN_D, FLOAT, WIN_F,
                 CONTENT2, WS3>>

---------------------------------------------------------------------------
(* Library functions the handlers call. *)

Digits == "0123456789"
IsDigit(ch) == \E i \in 1..10 : SubSeq(Digits, i, i) = ch
DigitVal(ch) == (CHOOSE i \in 1..10 : SubSeq(Digits, i, i) = ch) - 1

RECURSIVE ParseDigits(_, _)
ParseDigits(s, acc) ==
    IF s = "" \/ ~IsDigit(Head(s)) THEN [val |-> acc, end |-> s]
    ELSE ParseDigits(Tail(s), acc * 10 + DigitVal(Head(s)))

\* strtol(s, &end, 10) on the short strings of the model: an optional sign,
\* then digits; without a digit nothing is consumed and the value is 0.
strtol(s) ==
    LET neg  == s # "" /\ Head(s) = "-"
        body == IF s # "" /\ Head(s) \in {"-", "+"} THEN Tail(s) ELSE s
        r    == ParseDigits(body, 0)
    IN  IF r.end = body THEN [val |-> 0, end |-> s]
        ELSE [val |-> IF neg THEN 0 - r.val ELSE r.val, end |-> r.end]

atoi(s) == strtol(s).val

\* A regular expression without metacharacters matches a text that
\* contains it.
regex_new(cvalue) == Str(cvalue)
regex_matches(re, text) ==
    LET p == re[1]
    IN  \E i \in 1..(Len(text) - Len(p) + 1) : SubSeq(text, i, i + Len(p) - 1) = p

---------------------------------------------------------------------------
(* Match. *)

\* match_init: every predicate absent.
match_init ==
    [title |-> NoStr, application |-> NoStr, class |-> NoStr,
     instance |-> NoStr, mark |-> NoStr, role |-> NoStr,
     id |-> 0, con_id |-> NULL,
     dock |-> "M_DONTCHECK", floating |-> "M_ANY", insert_where |-> "M_HERE"]

\* The empty match: all predicates absent.
match_is_empty(m) ==
    /\ m.title = NoStr /\ m.application = NoStr /\ m.class = NoStr
    /\ m.instance = NoStr /\ m.mark = NoStr /\ m.role = NoStr
    /\ m.id = 0 /\ m.con_id = NULL
    /\ m.dock = "M_DONTCHECK" /\ m.floating = "M_ANY"

\* One regex predicate against one attribute of the window.
PredicateMatches(re, attr) ==
    re = NoStr \/ (attr # NoStr /\ regex_matches(re, attr[1]))

\* Every present window predicate matches; absent ones are satisfied.
match_matches_window(m, w) ==
    /\ PredicateMatches(m.class, w.class)
    /\ PredicateMatches(m.instance, w.instance)
    /\ PredicateMatches(m.role, w.role)
    /\ PredicateMatches(m.title, w.title)
    /\ PredicateMatches(m.application, NoStr)
    /\ (m.id = 0 \/ m.id = w.id)

---------------------------------------------------------------------------
(* The migration test's parameter capture. *)

\* cmd_MIGRATION_save_new_parameters / cmd_MIGRATION_save_old_parameters:
\* a copy of the match and the parameters up to last_parameter, the
\* first of which is __FUNCTION__; a NULL parameter is kept as NULL.
SaveParameters(frames, m, params) ==
    Append(frames, [match |-> m, n_args |-> Len(params), args |-> params])

\* The capture of cmd_criteria_add and cmd_criteria_match_windows, which
\* do not return after it.
SaveAndContinue(m, fn) ==
    IF migration_test
    THEN /\ new_stackframes' = SaveParameters(new_stackframes, m, <<Str(fn)>>)
         /\ UNCHANGED old_stackframes
    ELSE /\ old_stackframes' = SaveParameters(old_stackframes, m, <<Str(fn)>>)
         /\ UNCHANGED new_stackframes

---------------------------------------------------------------------------
(* Criteria functions. *)

TAILQ_INSERT_TAIL(list, elem) == Append(list, elem)

RECURSIVE CopyAllCons(_, _)
CopyAllCons(rest, acc) ==
    IF rest = <<>> THEN acc
    ELSE CopyAllCons(Tail(rest), TAILQ_INSERT_TAIL(acc, Head(rest)))

cmd_criteria_init ==
    /\ pc = "start"
    /\ current_match' = match_init
    /\ owindows' = CopyAllCons(all_cons, <<>>)
    /\ reply' = <<>>
    /\ pc' = "init"
    /\ ncrit' = 0
    /\ UNCHANGED <<harnessvars, envvars>>
    /\ UNCHANGED <<cons, all_cons, focused, migration_test, new_stackframes,
                   old_stackframes, nlines, call, before>>

\* The branch of the loop body a candidate takes.
MatchBranch(m, tr, c) ==
    IF m.con_id # NULL
    THEN IF m.con_id = c THEN "matches container" ELSE "other container"
    ELSE IF /\ m.mark # NoStr
            /\ tr[c].mark # NoStr
            /\ regex_matches(m.mark, tr[c].mark[1])
         THEN "match by mark"
         ELSE IF tr[c].window = NoWindow THEN "no window"
              ELSE IF match_matches_window(m, tr[c].window[1])
                   THEN "matches window"
                   ELSE "doesnt match"

\* Faulty variant: the window of a candidate is looked at before con_id.
KeepCandidateWindowFirst(m, tr, c) ==
    IF tr[c].window # NoWindow
    THEN match_matches_window(m, tr[c].window[1])
    ELSE m.con_id = c

\* Faulty variant: a candidate without a window is kept instead of skipped.
KeepCandidateWithoutWindow(m, tr, c) ==
    MatchBranch(m, tr, c) \in
        {"matches container", "match by mark", "matches window", "no window"}

\* Whether the candidate is inserted into the new list.
KeepCandidate(m, tr, c) ==
    MatchBranch(m, tr, c) \in {"matches container", "match by mark", "matches window"}

\* Faulty variant: matching containers are inserted at the head of the new list.
RECURSIVE FilterOwindowsAtHead(_, _, _, _)
FilterOwindowsAtHead(old, m, tr, acc) ==
    IF old = <<>> THEN acc
    ELSE FilterOwindowsAtHead(Tail(old), m, tr,
                              IF MatchBranch(m, tr, Head(old)) \in
                                     {"matches container", "match by mark",
                                      "matches window"}
                              THEN <<Head(old)>> \o acc
                              ELSE acc)

RECURSIVE FilterOwindows(_, _, _, _)
FilterOwindows(old, m, tr, acc) ==
    IF old = <<>> THEN acc
    ELSE FilterOwindows(Tail(old), m, tr,
                        IF KeepCandidate(m, tr, Head(old))
                        THEN TAILQ_INSERT_TAIL(acc, Head(old))
                        ELSE acc)

cmd_criteria_match_windows ==
    /\ pc \in {"init", "criteria"}
    /\ SaveAndContinue(current_match, "cmd_criteria_match_windows")
    /\ owindows' = FilterOwindows(owindows, current_match, cons, <<>>)
    /\ reply' = <<>>
    /\ pc' = "matched"
    /\ UNCHANGED <<harnessvars, envvars>>
    /\ UNCHANGED <<cons, all_cons, focused, current_match, migration_test,
                   ncrit, nlines, call, before>>

\* Whether strtol's result is refused.
\* Faulty variant: a negative number counts as parsed.
ParseFailsOnTrailing(r) == r.end # ""

ParseFails(r) == r.val < 0 \/ r.end # ""

AddCriterion(m, ctype, cvalue) ==
    CASE ctype = "class"       -> [m EXCEPT !.class = regex_new(cvalue)]
      [] ctype = "instance"    -> [m EXCEPT !.instance = regex_new(cvalue)]
      [] ctype = "window_role" -> [m EXCEPT !.role = regex_new(cvalue)]
      [] ctype = "con_id"      ->
            IF ParseFails(strtol(cvalue)) THEN m
            ELSE [m EXCEPT !.con_id = strtol(cvalue).val]
      [] ctype = "id"          ->
            IF ParseFails(strtol(cvalue)) THEN m
            ELSE [m EXCEPT !.id = strtol(cvalue).val]
      [] ctype = "con_mark"    -> [m EXCEPT !.mark = regex_new(cvalue)]
      [] ctype = "title"       -> [m EXCEPT !.title = regex_new(cvalue)]
      [] OTHER                 -> m

cmd_criteria_add(ctype, cvalue) ==
    /\ pc \in {"init", "criteria"}
    /\ ncrit < MaxCriteria
    /\ SaveAndContinue(current_match, "cmd_criteria_add")
    /\ current_match' = AddCriterion(current_match, ctype, cvalue)
    /\ reply' = <<>>
    /\ pc' = "criteria"
    /\ ncrit' = ncrit + 1
    /\ UNCHANGED <<harnessvars, envvars>>
    /\ UNCHANGED <<cons, all_cons, focused, owindows, migration_test,
                   nlines, call, before>>

\* The criteria the parser passes.
CriteriaArgs ==
    {<<"class", "term">>, <<"class", "zsh">>, <<"instance", "nav">>,
     <<"window_role", "pop">>, <<"title", "mail">>, <<"id", "22">>,
     <<"con_mark", "m">>, <<"con_id", "3">>, <<"con_id", "4">>,
     <<"con_id", "-1">>, <<"urgent", "1">>}

CriteriaAdd == \E a \in CriteriaArgs : cmd_criteria_add(a[1], a[2])

---------------------------------------------------------------------------
(* Command handlers. *)

SuccessReply == << [key |-> "success", val |-> "true"] >>
FailureReply == << [key |-> "sucess", val |-> "false"] >>

\* HANDLE_EMPTY_MATCH: the list a handler iterates after the macro.
HANDLE_EMPTY_MATCH(m, ows, foc) ==
    IF match_is_empty(m) THEN TAILQ_INSERT_TAIL(<<>>, foc) ELSE ows

\* What is recorded of a handler call: its name and parameters, the match
\* and focus it saw, the list it iterated, the containers it handed to a
\* tree operation, its last log line and, for resize, the two participants.
Call(fn, params, ows, operated, log, current, other) ==
    [fn |-> fn, args |-> params, match |-> current_match, focused |-> focused,
     owindows |-> ows, operated |-> operated, log |-> log,
     current |-> current, other |-> other, executed |-> ~migration_test]

NoCall ==
    [fn |-> "", args |-> <<>>, match |-> match_init, focused |-> NULL,
     owindows |-> <<>>, operated |-> <<>>, log |-> "",
     current |-> NULL, other |-> NULL, executed |-> FALSE]

\* The parser calls a handler after cmd_criteria_init, or after the
\* closing bracket of the criteria.
HandlerReady == pc \in {"init", "matched"}

\* Faulty variant: the branch for the new parser saves with the function of
\* the old one.
MigrationNewPathSavesOld(fn, params) ==
    /\ old_stackframes' =
           SaveParameters(old_stackframes, current_match, <<Str(fn)>> \o params)
    /\ reply' = <<>>
    /\ call' = Call(fn, params, owindows, <<>>, "saving parameters", NULL, NULL)
    /\ before' = cons
    /\ pc' = "done"
    /\ UNCHANGED <<harnessvars, envvars>>
    /\ UNCHANGED <<cons, all_cons, focused, current_match, owindows,
                   migration_test, new_stackframes, ncrit, nlines>>

\* MIGRATION_init with migration_test set: save the parameters for the new
\* parser and return NULL.
MigrationNewPath(fn, params) ==
    /\ new_stackframes' =
           SaveParameters(new_stackframes, current_match, <<Str(fn)>> \o params)
    /\ reply' = <<>>
    /\ call' = Call(fn, params, owindows, <<>>, "saving parameters", NULL, NULL)
    /\ before' = cons
    /\ pc' = "done"
    /\ UNCHANGED <<harnessvars, envvars>>
    /\ UNCHANGED <<cons, all_cons, focused, current_match, owindows,
                   migration_test, old_stackframes, ncrit, nlines>>

\* MIGRATION_init without it: save the parameters for the old parser and
\* go on.
MigrationOldPath(fn, params) ==
    /\ old_stackframes' =
           SaveParameters(old_stackframes, current_match, <<Str(fn)>> \o params)
    /\ before' = cons
    /\ pc' = "done"
    /\ UNCHANGED <<harnessvars, envvars>>
    /\ UNCHANGED <<all_cons, focused, current_match, migration_test,
                   new_stackframes, ncrit, nlines>>

\* Faulty variant: the mark is set without clearing it on the containers
\* that carry it.
cmd_mark_without_clearing(mark) ==
    /\ HandlerReady
    /\ IF migration_test THEN MigrationNewPath("cmd_mark", <<Str(mark)>>)
       ELSE LET ows == HANDLE_EMPTY_MATCH(current_match, owindows, focused)
            IN  /\ MigrationOldPath("cmd_mark", <<Str(mark)>>)
                /\ cons' = [c \in Cons |->
                               IF InSeq(c, ows)
                               THEN [cons[c] EXCEPT !.mark = Str(mark)]
                               ELSE cons[c]]
                /\ owindows' = ows
                /\ reply' = SuccessReply
                /\ call' = Call("cmd_mark", <<Str(mark)>>, ows, ows,
                                "marking window", NULL, NULL)

cmd_mark(mark) ==
    /\ HandlerReady
    /\ IF migration_test THEN MigrationNewPath("cmd_mark", <<Str(mark)>>)
       ELSE LET cleared == [c \in Cons |->
                               IF cons[c].mark # NoStr /\ cons[c].mark[1] = mark
                               THEN [cons[c] EXCEPT !.mark = NoStr]
                               ELSE cons[c]]
                ows == HANDLE_EMPTY_MATCH(current_match, owindows, focused)
            IN  /\ MigrationOldPath("cmd_mark", <<Str(mark)>>)
                /\ cons' = [c \in Cons |->
                               IF InSeq(c, ows)
                               THEN [cleared[c] EXCEPT !.mark = Str(mark)]
                               ELSE cleared[c]]
                /\ owindows' = ows
                /\ reply' = SuccessReply
                /\ call' = Call("cmd_mark", <<Str(mark)>>, ows, ows,
                                "marking window", NULL, NULL)

\* The border style cmd_border computes for one container; -1 where the
\* handler logs a BUG and returns.
BorderStyle(style, border_style_str) ==
    CASE border_style_str = "toggle" -> (style + 1) % 3
      [] border_style_str = "normal" -> BS_NORMAL
      [] border_style_str = "none"   -> BS_NONE
      [] border_style_str = "1pixel" -> BS_1PIXEL
      [] OTHER                       -> 0 - 1

cmd_border(border_style_str) ==
    /\ HandlerReady
    /\ IF migration_test
       THEN MigrationNewPath("cmd_border", <<Str(border_style_str)>>)
       ELSE LET ows == HANDLE_EMPTY_MATCH(current_match, owindows, focused)
                bug == ows # <<>> /\ BorderStyle(BS_NORMAL, border_style_str) < 0
            IN  /\ MigrationOldPath("cmd_border", <<Str(border_style_str)>>)
                /\ owindows' = ows
                /\ IF bug
                   THEN /\ cons' = cons
                        /\ reply' = FailureReply
                        /\ call' = Call("cmd_border", <<Str(border_style_str)>>,
                                        ows, <<>>, "BUG: called with border_style",
                                        NULL, NULL)
                   ELSE /\ cons' = [c \in Cons |->
                                      IF InSeq(c, ows)
                                      THEN [cons[c] EXCEPT !.border_style =
                                              BorderStyle(cons[c].border_style,
                                                          border_style_str)]
                                      ELSE cons[c]]
                        /\ reply' = SuccessReply
                        /\ call' = Call("cmd_border", <<Str(border_style_str)>>,
                                        ows, ows, "border style should be changed",
                                        NULL, NULL)

LayoutOf(layout_str) ==
    IF layout_str = "default" THEN "L_DEFAULT"
    ELSE IF layout_str = "stacked" THEN "L_STACKED" ELSE "L_TABBED"

cmd_layout(layout_arg) ==
    LET layout_str == IF layout_arg = "stacking" THEN "stacked" ELSE layout_arg
        layout == LayoutOf(layout_str)
        targets == IF match_is_empty(current_match)
                   THEN <<cons[focused].parent>>
                   ELSE owindows
    IN  /\ HandlerReady
        /\ IF migration_test THEN MigrationNewPath("cmd_layout", <<Str(layout_str)>>)
           ELSE /\ MigrationOldPath("cmd_layout", <<Str(layout_str)>>)
                /\ cons' = [c \in Cons |->
                               IF InSeq(c, targets)
                               THEN [cons[c] EXCEPT !.layout = layout]
                               ELSE cons[c]]
                /\ UNCHANGED owindows
                /\ reply' = SuccessReply
                /\ call' = Call("cmd_layout", <<Str(layout_str)>>, owindows,
                                targets, "changing layout", NULL, NULL)

---------------------------------------------------------------------------
(* cmd_resize. *)

\* definitelyGreaterThan(a, b, epsilon): (a - b) > max(|a|, |b|) * epsilon,
\* with the epsilon given by its reciprocal.
definitelyGreaterThan(a, b, epsilonInverse) ==
    (a - b) * epsilonInverse > Max(Abs(a), Abs(b))

\* 1 / DBL_EPSILON is 2^52; on the grid of the model every power of two
\* above the largest percent orders the values the same way.
DBL_EPSILON_INVERSE == 2 ^ 16

\* The floor 0.05.
PercentFloor == 5 * PptUnit

\* The floating container the container is inside of, or NULL.
RECURSIVE con_inside_floating(_, _)
con_inside_floating(tr, c) ==
    IF tr[c].type = "CT_FLOATING_CON" THEN c
    ELSE IF tr[c].type = "CT_WORKSPACE" \/ tr[c].parent = NULL THEN NULL
    ELSE con_inside_floating(tr, tr[c].parent)

\* while (current->parent->layout == L_STACKED || ... == L_TABBED)
RECURSIVE SkipStackedTabbed(_, _)
SkipStackedTabbed(tr, current) ==
    IF tr[tr[current].parent].layout \in {"L_STACKED", "L_TABBED"}
    THEN SkipStackedTabbed(tr, tr[current].parent)
    ELSE current

\* while (current->type != CT_WORKSPACE && current->type != CT_FLOATING_CON
\*        && current->parent->orientation != search_orientation)
RECURSIVE FindOrientation(_, _, _)
FindOrientation(tr, current, search_orientation) ==
    IF /\ tr[current].type # "CT_WORKSPACE"
       /\ tr[current].type # "CT_FLOATING_CON"
       /\ tr[tr[current].parent].orientation # search_orientation
    THEN FindOrientation(tr, tr[current].parent, search_orientation)
    ELSE current

SearchOrientation(direction) ==
    IF direction = "left" \/ direction = "right" THEN "HORIZ" ELSE "VERT"

\* The container the tiling resize works on.
ResizeCurrent(tr, foc, direction) ==
    FindOrientation(tr, SkipStackedTabbed(tr, foc), SearchOrientation(direction))

WrongDirection(orientation, direction) ==
    \/ orientation = "HORIZ" /\ (direction = "up" \/ direction = "down")
    \/ orientation = "VERT" /\ (direction = "left" \/ direction = "right")

NodeIndex(tr, c) ==
    CHOOSE i \in 1..Len(tr[tr[c].parent].nodes) : tr[tr[c].parent].nodes[i] = c

TAILQ_PREV(tr, c) ==
    IF NodeIndex(tr, c) = 1 THEN NULL
    ELSE tr[tr[c].parent].nodes[NodeIndex(tr, c) - 1]

TAILQ_NEXT(tr, c) ==
    IF NodeIndex(tr, c) = Len(tr[tr[c].parent].nodes) THEN NULL
    ELSE tr[tr[c].parent].nodes[NodeIndex(tr, c) + 1]

\* Faulty variant: the two directions of the sibling list are swapped.
ResizeOtherSwapped(tr, current, direction) ==
    IF direction = "up" \/ direction = "left"
    THEN TAILQ_NEXT(tr, current)
    ELSE TAILQ_PREV(tr, current)

\* The neighbour in the direction of the resize.
ResizeOther(tr, current, direction) ==
    IF direction = "up" \/ direction = "left"
    THEN TAILQ_PREV(tr, current)
    ELSE TAILQ_NEXT(tr, current)

\* if (con->percent == 0.0) con->percent = percentage;
DefaultPercent(percent, percentage) ==
    IF percent = 0 THEN percentage ELSE percent

\* The floor test on the two candidate percentages.
AboveFloor(new_current_percent, new_other_percent) ==
    /\ definitelyGreaterThan(new_current_percent, PercentFloor, DBL_EPSILON_INVERSE)
    /\ definitelyGreaterThan(new_other_percent, PercentFloor, DBL_EPSILON_INVERSE)

\* Faulty variant: up and left grow the rect without moving its origin.
FloatingResizeInPlace(rect, direction, px) ==
    CASE direction \in {"up", "down"} -> [rect EXCEPT !.height = @ + px]
      [] OTHER                        -> [rect EXCEPT !.width = @ + px]

\* The floating branch: the rect of the floating container.
FloatingResize(rect, direction, px) ==
    CASE direction = "up"   -> [rect EXCEPT !.y = @ - px, !.height = @ + px]
      [] direction = "down" -> [rect EXCEPT !.height = @ + px]
      [] direction = "left" -> [rect EXCEPT !.x = @ - px, !.width = @ + px]
      [] OTHER              -> [rect EXCEPT !.width = @ + px]

\* Faulty variant: the neighbour gives up twice what the container gains.
TilingResizeDoubleTake(tr, current, other, ppt) ==
    LET percentage == PercentScale \div con_num_children(tr, tr[current].parent)
        cur0  == DefaultPercent(tr[current].percent, percentage)
        oth0  == DefaultPercent(tr[other].percent, percentage)
        delta == ppt * PptUnit
        set   == [tr EXCEPT ![current].percent = cur0, ![other].percent = oth0]
    IN  IF AboveFloor(cur0 + delta, oth0 - delta)
        THEN [tree |-> [set EXCEPT ![current].percent = cur0 + delta,
                                   ![other].percent = oth0 - 2 * delta],
              log |-> "current->percent after"]
        ELSE [tree |-> set, log |-> "Not resizing, already at minimum size"]

\* The tiling branch from the default percentage on: the tree after it,
\* the reply and the log line.
TilingResize(tr, current, other, ppt) ==
    LET percentage == PercentScale \div con_num_children(tr, tr[current].parent)
        cur0  == DefaultPercent(tr[current].percent, percentage)
        oth0  == DefaultPercent(tr[other].percent, percentage)
        delta == ppt * PptUnit
        set   == [tr EXCEPT ![current].percent = cur0, ![other].percent = oth0]
    IN  IF AboveFloor(cur0 + delta, oth0 - delta)
        THEN [tree |-> [set EXCEPT ![current].percent = cur0 + delta,
                                   ![other].percent = oth0 - delta],
              log |-> "current->percent after"]
        ELSE [tree |-> set, log |-> "Not resizing, already at minimum size"]

cmd_resize(way, direction, resize_px, resize_ppt) ==
    LET params == <<Str(way), Str(direction), Str(resize_px), Str(resize_ppt)>>
        px  == IF way = "shrink" THEN atoi(resize_px) * (0 - 1) ELSE atoi(resize_px)
        ppt == IF way = "shrink" THEN atoi(resize_ppt) * (0 - 1) ELSE atoi(resize_ppt)
        floating_con == con_inside_floating(cons, focused)
        current == ResizeCurrent(cons, focused, direction)
        orientation == cons[cons[current].parent].orientation
        other == ResizeOther(cons, current, direction)
    IN  /\ HandlerReady
        /\ IF migration_test THEN MigrationNewPath("cmd_resize", params)
           ELSE /\ MigrationOldPath("cmd_resize", params)
                /\ UNCHANGED owindows
                /\ IF floating_con # NULL
                   THEN /\ cons' = [cons EXCEPT ![floating_con].rect =
                                       FloatingResize(@, direction, px)]
                        /\ reply' = SuccessReply
                        /\ call' = Call("cmd_resize", params, owindows,
                                        <<floating_con>>, "floating resize",
                                        NULL, NULL)
                   ELSE IF WrongDirection(orientation, direction)
                   THEN /\ cons' = cons
                        /\ reply' = FailureReply
                        /\ call' = Call("cmd_resize", params, owindows, <<>>,
                                        "You cannot resize in that direction",
                                        current, NULL)
                   ELSE IF other = NULL
                   THEN /\ cons' = cons
                        /\ reply' = FailureReply
                        /\ call' = Call("cmd_resize", params, owindows, <<>>,
                                        "No other container in this direction found",
                                        current, NULL)
                   ELSE /\ cons' = TilingResize(cons, current, other, ppt).tree
                        /\ reply' = SuccessReply
                        /\ call' = Call("cmd_resize", params, owindows,
                                        <<current, other>>,
                                        TilingResize(cons, current, other, ppt).log,
                                        current, other)

---------------------------------------------------------------------------
(* The migration test: enable, disable, validate. *)

\* The flag and the two buffers.
HarnessState ==
    [migration_test |-> migration_test, new_stackframes |-> new_stackframes,
     old_stackframes |-> old_stackframes]

NoHarnessCall == [fn |-> "", state |-> HarnessState]

\* Faulty variant: an if in place of the while, one frame is removed.
ClearStackOnce(frames) ==
    IF frames = <<>> THEN frames ELSE Tail(frames)

\* while (!TAILQ_EMPTY(&frames)) { free the first frame and remove it }
RECURSIVE ClearStack(_)
ClearStack(frames) ==
    IF frames = <<>> THEN frames ELSE ClearStack(Tail(frames))

\* The parser calls the functions of the test before the first pass over a
\* command line and after a pass.
HarnessCallReady == pc = "done" \/ (pc = "start" /\ nlines = 1)

cmd_MIGRATION_enable ==
    /\ HarnessCallReady
    /\ migration_test' = TRUE
    /\ old_stackframes' = ClearStack(old_stackframes)
    /\ new_stackframes' = ClearStack(new_stackframes)
    /\ harness_before' = [fn |-> "cmd_MIGRATION_enable", state |-> HarnessState]
    /\ UNCHANGED <<cons, all_cons, focused, current_match, owindows, pc, ncrit,
                   nlines, reply, call, before, migration_pid,
                   ev_version_major, envvars, nagbar, child_watchers, cleanup_watchers,
                   killed, validation>>

\* Faulty variant: disabling the test releases the frames as well.
cmd_MIGRATION_disable_clearing ==
    /\ HarnessCallReady
    /\ migration_test' = FALSE
    /\ old_stackframes' = ClearStack(old_stackframes)
    /\ new_stackframes' = ClearStack(new_stackframes)
    /\ harness_before' = [fn |-> "cmd_MIGRATION_disable", state |-> HarnessState]
    /\ UNCHANGED <<cons, all_cons, focused, current_match, owindows, pc, ncrit,
                   nlines, reply, call, before, migration_pid,
                   ev_version_major, envvars, nagbar, child_watchers, cleanup_watchers,
                   killed, validation>>

cmd_MIGRATION_disable ==
    /\ HarnessCallReady
    /\ migration_test' = FALSE
    /\ harness_before' = [fn |-> "cmd_MIGRATION_disable", state |-> HarnessState]
    /\ UNCHANGED <<cons, all_cons, focused, current_match, owindows,
                   new_stackframes, old_stackframes, pc, ncrit, nlines, reply,
                   call, before, migration_pid, ev_version_major, envvars, nagbar,
                   child_watchers, cleanup_watchers, killed, validation>>

re_differ(new, old) ==
    \/ (new = NoStr /\ old # NoStr)
    \/ (new # NoStr /\ old = NoStr)
    \/ (new # NoStr /\ old # NoStr /\ new[1] # old[1])

\* Faulty variant: only two strings are compared, NULL differs from nothing.
str_differ_both_set(new, old) ==
    new # NoStr /\ old # NoStr /\ new[1] # old[1]

str_differ(new, old) ==
    \/ (new = NoStr /\ old # NoStr)
    \/ (new # NoStr /\ old = NoStr)
    \/ (new # NoStr /\ old # NoStr /\ new[1] # old[1])

\* The first test of the loop body: the match of the two frames.
MatchDiffers(new_frame, old_frame) ==
    \/ new_frame.match.dock # old_frame.match.dock
    \/ new_frame.match.id # old_frame.match.id
    \/ new_frame.match.con_id # old_frame.match.con_id
    \/ new_frame.match.floating # old_frame.match.floating
    \/ new_frame.match.insert_where # old_frame.match.insert_where
    \/ re_differ(new_frame.match.title, old_frame.match.title)
    \/ re_differ(new_frame.match.application, old_frame.match.application)
    \/ re_differ(new_frame.match.class, old_frame.match.class)
    \/ re_differ(new_frame.match.instance, old_frame.match.instance)
    \/ re_differ(new_frame.match.mark, old_frame.match.mark)
    \/ re_differ(new_frame.match.role, old_frame.match.role)

\* for (int j = 0; j < new_frame->n_args; j++) if (str_differ(...)) ...
ArgsDiffer(new_frame, old_frame) ==
    \E j \in 1..new_frame.n_args :
        str_differ(new_frame.args[j], old_frame.args[j])

Validated(result, reason, frame) ==
    [result |-> result, reason |-> reason, frame |-> frame]

\* The loop over the frames, from the i-th pair on; the frame of a FAILED
\* is the loop counter, which starts at 0.
RECURSIVE CompareFrames(_, _, _)
CompareFrames(new, old, i) ==
    IF i > Len(new) THEN Validated("OK", "", 0 - 1)
    ELSE IF MatchDiffers(new[i], old[i])
    THEN Validated("FAILED", "new_frame->match != old_frame->match", i - 1)
    ELSE IF new[i].n_args # old[i].n_args
    THEN Validated("FAILED", "new_frame->n_args != old_frame->n_args", i - 1)
    ELSE IF ArgsDiffer(new[i], old[i])
    THEN Validated("FAILED", "new_frame->args != old_frame->args", i - 1)
    ELSE CompareFrames(new, old, i + 1)

\* What cmd_MIGRATION_validate logs for the two buffers.
ValidateStacks(new, old) ==
    IF Len(new) # Len(old)
    THEN Validated("FAILED", "new_count != old_count", 0 - 1)
    ELSE CompareFrames(new, old, 1)

---------------------------------------------------------------------------
(* The diagnostic process i3-nagbar. *)

Pids == 1..MaxNagbars

\* A process that was started and whose end nagbar_exited has not seen.
Unobserved(p) == nagbar[p] \in {"running", "exited", "signaled"}

NoValidation ==
    [result |-> "", reason |-> "", frame |-> 0 - 1, new_count |-> 0,
     pending |-> FALSE,
     spawn |-> ""]

\* Faulty variant: the test for the child's side of fork() in place of the
\* test for no process.
NagbarRunningIsChild(pid) == pid = 0

\* if (migration_pid != -1) { "i3-nagbar already running." return; }
NagbarRunning(pid) == pid # 0 - 1

\* What fork() can return to the parent: -1, or the pid of the child, a
\* pid no process has had.
ForkResults ==
    {0 - 1} \cup (IF \E p \in Pids : nagbar[p] = "none"
                  THEN {CHOOSE p \in Pids :
                           /\ nagbar[p] = "none"
                           /\ \A q \in Pids : nagbar[q] = "none" => p <= q}
                  ELSE {})

\* Faulty variant: the cleanup watcher is initialised and never started.
cmd_MIGRATION_start_nagbar_no_cleanup(fork_result) ==
    IF NagbarRunning(migration_pid)
    THEN UNCHANGED <<migration_pid, nagbar, child_watchers, cleanup_watchers>>
    ELSE IF fork_result = 0 - 1
    THEN /\ migration_pid' = fork_result
         /\ UNCHANGED <<nagbar, child_watchers, cleanup_watchers>>
    ELSE /\ migration_pid' = fork_result
         /\ nagbar' = [nagbar EXCEPT ![fork_result] = "running"]
         /\ child_watchers' = child_watchers \cup {fork_result}
         /\ UNCHANGED cleanup_watchers

\* cmd_MIGRATION_start_nagbar, in the parent; the child execs i3-nagbar.
cmd_MIGRATION_start_nagbar(fork_result) ==
    IF NagbarRunning(migration_pid)
    THEN UNCHANGED <<migration_pid, nagbar, child_watchers, cleanup_watchers>>
    ELSE IF fork_result = 0 - 1
    THEN /\ migration_pid' = fork_result
         /\ UNCHANGED <<nagbar, child_watchers, cleanup_watchers>>
    ELSE /\ migration_pid' = fork_result
         /\ nagbar' = [nagbar EXCEPT ![fork_result] = "running"]
         /\ child_watchers' = child_watchers \cup {fork_result}
         /\ cleanup_watchers' = IF ev_version_major >= 4
                                THEN cleanup_watchers + 1
                                ELSE cleanup_watchers

\* What start_nagbar did, for the record of the validation.
SpawnOutcome(fork_result) ==
    IF NagbarRunning(migration_pid) THEN "i3-nagbar already running"
    ELSE IF fork_result = 0 - 1 THEN "Could not fork()"
    ELSE "Starting i3-nagbar"

\* Faulty variant: a validation that succeeds frees the frames it compared.
cmd_MIGRATION_validate_consuming(fork_result) ==
    LET v == ValidateStacks(new_stackframes, old_stackframes)
    IN  /\ HarnessCallReady
        /\ IF v.result = "FAILED"
           THEN /\ cmd_MIGRATION_start_nagbar(fork_result)
                /\ UNCHANGED <<new_stackframes, old_stackframes>>
           ELSE /\ new_stackframes' = ClearStack(new_stackframes)
                /\ old_stackframes' = ClearStack(old_stackframes)
                /\ UNCHANGED <<migration_pid, nagbar, child_watchers,
                               cleanup_watchers>>
        /\ validation' =
               [result |-> v.result, reason |-> v.reason, frame |-> v.frame,
                new_count |-> Len(new_stackframes),
                pending |-> \E p \in Pids : Unobserved(p),
                spawn |-> IF v.result = "FAILED" THEN SpawnOutcome(fork_result)
                          ELSE ""]
        /\ UNCHANGED <<cons, all_cons, focused, current_match, owindows,
                       migration_test, pc, ncrit, nlines, reply, call, before,
                       ev_version_major, envvars, killed, harness_before>>

cmd_MIGRATION_validate(fork_result) ==
    LET v == ValidateStacks(new_stackframes, old_stackframes)
    IN  /\ HarnessCallReady
        /\ IF v.result = "FAILED"
           THEN cmd_MIGRATION_start_nagbar(fork_result)
           ELSE UNCHANGED <<migration_pid, nagbar, child_watchers,
                            cleanup_watchers>>
        /\ validation' =
               [result |-> v.result, reason |-> v.reason, frame |-> v.frame,
                new_count |-> Len(new_stackframes),
                pending |-> \E p \in Pids : Unobserved(p),
                spawn |-> IF v.result = "FAILED" THEN SpawnOutcome(fork_result)
                          ELSE ""]
        /\ UNCHANGED <<cons, all_cons, focused, current_match, owindows,
                       migration_test, new_stackframes, old_stackframes, pc,
                       ncrit, nlines, reply, call, before, ev_version_major, envvars,
                       killed, harness_before>>

\* The i3-nagbar process ends: it exits, or a signal terminates it.
NagbarTerminates(p, how) ==
    /\ nagbar[p] = "running"
    /\ nagbar' = [nagbar EXCEPT ![p] = how]
    /\ UNCHANGED <<cons, all_cons, focused, current_match, owindows,
                   migration_test, new_stackframes, old_stackframes, pc, ncrit,
                   nlines, reply, call, before, migration_pid,
                   ev_version_major, envvars, child_watchers, cleanup_watchers, killed,
                   validation, harness_before>>

\* WIFEXITED(watcher->rstatus)
WIFEXITED(rstatus) == rstatus = "exited"

\* nagbar_exited: the child watcher of the process, run by the main loop
\* once the process has ended.
nagbar_exited(p) ==
    /\ pc # "exited"
    /\ p \in child_watchers
    /\ nagbar[p] \in {"exited", "signaled"}
    /\ child_watchers' = child_watchers \ {p}
    /\ nagbar' = [nagbar EXCEPT ![p] = "observed"]
    /\ migration_pid' = IF WIFEXITED(nagbar[p]) THEN 0 - 1 ELSE migration_pid
    /\ UNCHANGED <<cons, all_cons, focused, current_match, owindows,
                   migration_test, new_stackframes, old_stackframes, pc, ncrit,
                   nlines, reply, call, before, ev_version_major, envvars,
                   cleanup_watchers, killed, validation, harness_before>>

\* nagbar_cleanup: one cleanup watcher; the SIGKILLs sent so far are k.
nagbar_cleanup(k) ==
    IF migration_pid # 0 - 1
    THEN Append(k, [pid |-> migration_pid, state |-> nagbar[migration_pid]])
    ELSE k

RECURSIVE RunCleanupWatchers(_, _)
RunCleanupWatchers(n, k) ==
    IF n = 0 THEN k ELSE RunCleanupWatchers(n - 1, nagbar_cleanup(k))

\* The exit handler of the process destroys the main loop, which runs the
\* cleanup watchers; both exist with libev 4 and later only.
AtExit(k) ==
    IF ev_version_major >= 4 THEN RunCleanupWatchers(cleanup_watchers, k) ELSE k

cmd_exit ==
    /\ HandlerReady
    /\ IF migration_test THEN MigrationNewPath("cmd_exit", <<>>)
       ELSE /\ old_stackframes' =
                   SaveParameters(old_stackframes, current_match,
                                  <<Str("cmd_exit")>>)
            /\ before' = cons
            /\ call' = Call("cmd_exit", <<>>, owindows, <<>>,
                            "Exiting due to user command", NULL, NULL)
            /\ reply' = <<>>
            /\ pc' = "exited"
            /\ killed' = AtExit(killed)
            /\ nagbar' = [p \in Pids |->
                            IF /\ nagbar[p] = "running"
                               /\ \E i \in 1..Len(AtExit(killed)) :
                                      AtExit(killed)[i].pid = p
                            THEN "signaled" ELSE nagbar[p]]
            /\ UNCHANGED <<cons, all_cons, focused, current_match, owindows,
                           migration_test, new_stackframes, ncrit, nlines,
                           migration_pid, ev_version_major, envvars, child_watchers,
                           cleanup_watchers, validation, harness_before>>

---------------------------------------------------------------------------
(* Tree and output functions the handlers below call.  They are defined   *)
(* outside commands.c; the handlers use them as described here.           *)

RemoveFrom(seq, x) == SelectSeq(seq, LAMBDA e : e # x)

\* con_get_workspace: the workspace the container is on, itself if it is
\* one, NULL above the workspaces.
RECURSIVE con_get_workspace(_, _)
con_get_workspace(tr, c) ==
    IF c = NULL THEN NULL
    ELSE IF tr[c].type = "CT_WORKSPACE" THEN c
    ELSE con_get_workspace(tr, tr[c].parent)

\* con_descend_focused: the leaf the focus order leads to.
RECURSIVE con_descend_focused(_, _)
con_descend_focused(tr, c) ==
    IF tr[c].focus_head = <<>> THEN c
    ELSE con_descend_focused(tr, tr[c].focus_head[1])

\* con_focus: the container becomes the first of the focus order of its
\* parent, and so on up to the top.
RECURSIVE con_focus(_, _)
con_focus(tr, c) ==
    LET parent == tr[c].parent
    IN  IF parent = NULL THEN tr
        ELSE con_focus([tr EXCEPT ![parent].focus_head =
                                      <<c>> \o RemoveFrom(@, c)], parent)

\* workspace_is_visible: the workspace is the first in the focus order of
\* the content container of its output.
workspace_is_visible(tr, ws) ==
    /\ tr[tr[ws].parent].focus_head # <<>>
    /\ tr[tr[ws].parent].focus_head[1] = ws

\* The container inside the subtree of another, or the same one.
RECURSIVE Within(_, _, _)
Within(tr, c, top) ==
    IF c = NULL THEN FALSE
    ELSE IF c = top THEN TRUE
    ELSE Within(tr, tr[c].parent, top)

\* What a function that switches workspaces or moves the focus leaves:
\* the tree, the focus and the name of the workspace to return to.
TreeState(tr, foc, prev) == [cons |-> tr, focused |-> foc, previous |-> prev]

\* workspace_show: nothing on the workspace the focus is on already;
\* else that one is remembered and the focus goes to the focused leaf of
\* the workspace shown.
workspace_show(st, ws) ==
    LET current == con_get_workspace(st.cons, st.focused)
        target  == con_descend_focused(st.cons, ws)
    IN  IF ws = current THEN st
        ELSE TreeState(con_focus(st.cons, target), target,
                       IF current = NULL THEN st.previous
                       ELSE Str(st.cons[current].name))

\* con_move_to_workspace: a workspace is not moved, nor is a container
\* that is on the workspace already; a floating window moves with its
\* floating container.  The container is appended to the workspace; if
\* the focus was inside it the focus stays on the workspace it left.
con_move_to_workspace(st, con, ws) ==
    LET tr     == st.cons
        unit   == IF /\ tr[con].parent # NULL
                     /\ tr[tr[con].parent].type = "CT_FLOATING_CON"
                  THEN tr[con].parent ELSE con
        old    == tr[unit].parent
        source == con_get_workspace(tr, unit)
        tiling == tr[unit].type # "CT_FLOATING_CON"
        moved  == [tr EXCEPT
                      ![old].nodes = RemoveFrom(@, unit),
                      ![old].focus_head = RemoveFrom(@, unit),
                      ![ws].nodes = IF tiling THEN Append(@, unit) ELSE @,
                      ![ws].focus_head = Append(@, unit),
                      ![unit].parent = ws]
    IN  IF tr[con].type = "CT_WORKSPACE" \/ old = NULL \/ source = ws THEN st
        ELSE TreeState(moved,
                       IF Within(tr, st.focused, unit)
                       THEN con_descend_focused(moved, source)
                       ELSE st.focused,
                       st.previous)

\* tolower on the letters the names of the model use.
Upper == "ADGILSV"
Lower == "adgilsv"
tolower(ch) ==
    IF \E i \in 1..Len(Upper) : SubSeq(Upper, i, i) = ch
    THEN LET i == CHOOSE i \in 1..Len(Upper) : SubSeq(Upper, i, i) = ch
         IN  SubSeq(Lower, i, i)
    ELSE ch

RECURSIVE ToLower(_)
ToLower(str) ==
    IF str = "" THEN "" ELSE tolower(SubSeq(str, 1, 1)) \o ToLower(Tail(str))

\* strcasecmp(a, b) == 0
strcasecmp_equal(a, b) == ToLower(a) = ToLower(b)

\* An Output* is the position of the output in the list; NULL is 0.
\* get_output_containing: the active output the point lies in.
get_output_containing(outs, x, y) ==
    LET hits == {o \in 1..Len(outs) :
                    /\ outs[o].active
                    /\ x >= outs[o].rect.x /\ x < outs[o].rect.x + outs[o].rect.width
                    /\ y >= outs[o].rect.y /\ y < outs[o].rect.y + outs[o].rect.height}
    IN  IF hits = {} THEN NULL ELSE CHOOSE o \in hits : \A h \in hits : o <= h

\* get_output_by_name: the active output of that name.
get_output_by_name(outs, name) ==
    LET hits == {o \in 1..Len(outs) :
                    outs[o].active /\ strcasecmp_equal(outs[o].name, name)}
    IN  IF hits = {} THEN NULL ELSE CHOOSE o \in hits : \A h \in hits : o <= h

\* How far the other output lies from the current one in the direction;
\* 0 or less when it does not lie in that direction.
OutputDistance(outs, direction, current, other) ==
    CASE direction = "D_RIGHT" /\ outs[other].rect.y = outs[current].rect.y ->
            outs[other].rect.x - outs[current].rect.x
      [] direction = "D_LEFT" /\ outs[other].rect.y = outs[current].rect.y ->
            outs[current].rect.x - outs[other].rect.x
      [] direction = "D_DOWN" /\ outs[other].rect.x = outs[current].rect.x ->
            outs[other].rect.y - outs[current].rect.y
      [] direction = "D_UP" /\ outs[other].rect.x = outs[current].rect.x ->
            outs[current].rect.y - outs[other].rect.y
      [] OTHER -> 0

\* get_output_next: the nearest active output in the direction, NULL
\* without one.
get_output_next(outs, direction, current) ==
    LET ahead == {o \in 1..Len(outs) :
                     outs[o].active /\ OutputDistance(outs, direction, current, o) > 0}
    IN  IF ahead = {} THEN NULL
        ELSE CHOOSE o \in ahead :
                 \A a \in ahead : OutputDistance(outs, direction, current, o)
                                   <= OutputDistance(outs, direction, current, a)

\* get_output_most: the last output in the direction, the current one
\* when none lies further.
RECURSIVE get_output_most(_, _, _)
get_output_most(outs, direction, current) ==
    IF get_output_next(outs, direction, current) = NULL THEN current
    ELSE get_output_most(outs, direction,
                         get_output_next(outs, direction, current))

---------------------------------------------------------------------------
(* Commands on outputs. *)

\* The old parser's branch of MIGRATION_init in a handler that may move
\* the focus, switch workspaces or not return to the parser.
SaveOldParameters(fn, params) ==
    /\ old_stackframes' =
           SaveParameters(old_stackframes, current_match, <<Str(fn)>> \o params)
    /\ before' = cons
    /\ UNCHANGED <<harnessvars, outputs, config>>
    /\ UNCHANGED <<all_cons, current_match, migration_test, new_stackframes,
                   ncrit, nlines>>

\* The handler leaves the tree state st and returns the reply.
Return(st, r) ==
    /\ cons' = st.cons
    /\ focused' = st.focused
    /\ previous_workspace_name' = st.previous
    /\ reply' = r
    /\ pc' = "done"

\* A failed assert or a NULL dereference ends the process.
Abort ==
    /\ UNCHANGED <<cons, focused, previous_workspace_name>>
    /\ reply' = <<>>
    /\ pc' = "aborted"

CurrentState == TreeState(cons, focused, previous_workspace_name)

\* The container tree laid out on the outputs: a container has the
\* origin of the output its content container belongs to.
RECURSIVE TopOf(_, _)
TopOf(tr, c) == IF tr[c].parent = NULL THEN c ELSE TopOf(tr, tr[c].parent)

Placed(tr, outs) ==
    [c \in Cons |->
        LET o == CHOOSE o \in 1..Len(outs) : outs[o].con = TopOf(tr, c)
        IN  [tr[c] EXCEPT !.rect = Rect(outs[o].rect.x, outs[o].rect.y,
                                        tr[c].rect.width, tr[c].rect.height)]]

\* tree_render at the end of a handler that moved containers between
\* outputs.
tree_render(st, outs) == [st EXCEPT !.cons = Placed(st.cons, outs)]

\* The next output in the direction, or with none the last one in the
\* opposite direction; for another string the output of that name.
get_output_from_string(outs, current_output, output_str) ==
    LET Wrapped(next, most) ==
            IF get_output_next(outs, next, current_output) # NULL
            THEN get_output_next(outs, next, current_output)
            ELSE get_output_most(outs, most, current_output)
    IN  CASE strcasecmp_equal(output_str, "left")  -> Wrapped("D_LEFT", "D_RIGHT")
          [] strcasecmp_equal(output_str, "right") -> Wrapped("D_RIGHT", "D_LEFT")
          [] strcasecmp_equal(output_str, "up")    -> Wrapped("D_UP", "D_DOWN")
          [] strcasecmp_equal(output_str, "down")  -> Wrapped("D_DOWN", "D_UP")
          [] OTHER -> get_output_by_name(outs, output_str)

\* TAILQ_FOREACH(current, &owindows, owindows)
\*     current_output = get_output_containing(rect.x, rect.y);
\* the output of the last container of the list, NULL for an empty list.
CurrentOutput(outs, tr, ows) ==
    IF ows = <<>> THEN NULL
    ELSE get_output_containing(outs, tr[ows[Len(ows)]].rect.x,
                               tr[ows[Len(ows)]].rect.y)

\* GREP_FIRST(ws, output_get_content(output->con), workspace_is_visible(child))
VisibleWorkspace(tr, outs, output) ==
    LET content == outs[output].con
        visible == SelectSeq(tr[content].nodes,
                             LAMBDA child : workspace_is_visible(tr, child))
    IN  IF visible = <<>> THEN NULL ELSE visible[1]

\* The loop that moves every container of the list to the workspace.
RECURSIVE MoveAllToWorkspace(_, _, _)
MoveAllToWorkspace(st, ows, ws) ==
    IF ows = <<>> THEN st
    ELSE MoveAllToWorkspace(con_move_to_workspace(st, Head(ows), ws),
                            Tail(ows), ws)

\* The output cmd_move_con_to_output resolves: the directions without
\* get_output_from_string.
MoveConOutput(outs, current_output, name) ==
    CASE strcasecmp_equal(name, "up")    -> get_output_next(outs, "D_UP", current_output)
      [] strcasecmp_equal(name, "down")  -> get_output_next(outs, "D_DOWN", current_output)
      [] strcasecmp_equal(name, "left")  -> get_output_next(outs, "D_LEFT", current_output)
      [] strcasecmp_equal(name, "right") -> get_output_next(outs, "D_RIGHT", current_output)
      [] OTHER -> get_output_by_name(outs, name)

cmd_move_con_to_output(name) ==
    /\ HandlerReady
    /\ IF migration_test
       THEN MigrationNewPath("cmd_move_con_to_output", <<Str(name)>>)
       ELSE LET ows == HANDLE_EMPTY_MATCH(current_match, owindows, focused)
                current_output == CurrentOutput(outputs, cons, ows)
                output == MoveConOutput(outputs, current_output, name)
                ws == VisibleWorkspace(cons, outputs, output)
                Record(operated, log, out) ==
                    Call("cmd_move_con_to_output", <<Str(name)>>, ows, operated,
                         log, current_output, out)
            IN  /\ SaveOldParameters("cmd_move_con_to_output", <<Str(name)>>)
                /\ owindows' = ows
                /\ IF current_output = NULL
                   THEN /\ Abort
                        /\ call' = Record(<<>>, "assert(current_output != NULL)", NULL)
                   ELSE IF output = NULL
                   THEN /\ Return(CurrentState, FailureReply)
                        /\ call' = Record(<<>>, "No such output found.", NULL)
                   ELSE IF ws = NULL
                   THEN /\ Return(CurrentState, FailureReply)
                        /\ call' = Record(<<>>, "no visible workspace", output)
                   ELSE /\ Return(tree_render(MoveAllToWorkspace(CurrentState,
                                                                 ows, ws),
                                              outputs),
                                  SuccessReply)
                        /\ call' = Record(ows, "should move window to output",
                                          output)

cmd_focus_output(name) ==
    /\ HandlerReady
    /\ IF migration_test
       THEN MigrationNewPath("cmd_focus_output", <<Str(name)>>)
       ELSE LET ows == HANDLE_EMPTY_MATCH(current_match, owindows, focused)
                current_output == CurrentOutput(outputs, cons, ows)
                output == get_output_from_string(outputs, current_output, name)
                ws == VisibleWorkspace(cons, outputs, output)
                Record(operated, log, out) ==
                    Call("cmd_focus_output", <<Str(name)>>, ows, operated,
                         log, current_output, out)
            IN  /\ SaveOldParameters("cmd_focus_output", <<Str(name)>>)
                /\ owindows' = ows
                /\ IF current_output = NULL
                   THEN /\ Abort
                        /\ call' = Record(<<>>, "assert(current_output != NULL)", NULL)
                   ELSE IF output = NULL
                   THEN /\ Return(CurrentState, FailureReply)
                        /\ call' = Record(<<>>, "No such output found.", NULL)
                   ELSE IF ws = NULL
                   THEN /\ Return(CurrentState, FailureReply)
                        /\ call' = Record(<<>>, "no visible workspace", output)
                   ELSE /\ Return(workspace_show(CurrentState, ws), SuccessReply)
                        /\ call' = Record(<<ws>>, "focus output", output)

\* con_detach and con_attach of a workspace: out of the lists of its
\* content container, and to the end of those of another.
con_detach(tr, ws) ==
    [tr EXCEPT ![tr[ws].parent].nodes = RemoveFrom(@, ws),
               ![tr[ws].parent].focus_head = RemoveFrom(@, ws)]

con_attach(tr, ws, content) ==
    [tr EXCEPT ![content].nodes = Append(@, ws),
               ![content].focus_head = Append(@, ws),
               ![ws].parent = content]

\* One round of the loop of cmd_move_workspace_to_output, for a container
\* whose output was resolved.
\* Faulty variant: the workspace is moved although it is the only one on
\* its output.
MoveWorkspaceAlways(st, con, output, outs) ==
    LET content     == outs[output].con
        ws          == con_get_workspace(st.cons, con)
        old_content == st.cons[ws].parent
        others      == con_detach(st.cons, ws)[old_content].focus_head
        was_visible == workspace_is_visible(st.cons, ws) /\ others # <<>>
        detached    == [st EXCEPT !.cons = con_detach(st.cons, ws)]
        shown       == IF was_visible
                       THEN workspace_show(detached, others[1])
                       ELSE detached
        attached    == [shown EXCEPT !.cons = con_attach(shown.cons, ws, content)]
    IN  IF was_visible THEN workspace_show(attached, ws)
        ELSE attached

MoveWorkspace(st, con, output, outs) ==
    LET content     == outs[output].con
        ws          == con_get_workspace(st.cons, con)
        old_content == st.cons[ws].parent
        was_visible == workspace_is_visible(st.cons, ws)
        detached    == [st EXCEPT !.cons = con_detach(st.cons, ws)]
        shown       == IF was_visible
                       THEN workspace_show(detached,
                                           detached.cons[old_content].focus_head[1])
                       ELSE detached
        attached    == [shown EXCEPT !.cons = con_attach(shown.cons, ws, content)]
    IN  IF con_num_children(st.cons, old_content) = 1 THEN st
        ELSE IF was_visible THEN workspace_show(attached, ws)
        ELSE attached

\* The loop: the result is "done" at the end of the list, "failed" when
\* a round finds no output, "crashed" when a round follows a NULL pointer
\* (no output contains the container and a direction is asked for, or the
\* container is on no workspace).
RECURSIVE MoveWorkspaces(_, _, _, _, _)
MoveWorkspaces(st, ows, outs, name, moved) ==
    IF ows = <<>> THEN [result |-> "done", st |-> st, moved |-> moved]
    ELSE LET con == Head(ows)
             current_output ==
                 get_output_containing(outs, st.cons[con].rect.x,
                                       st.cons[con].rect.y)
             direction == \E d \in {"left", "right", "up", "down"} :
                              strcasecmp_equal(name, d)
             output == get_output_from_string(outs, current_output, name)
         IN  IF current_output = NULL /\ direction
             THEN [result |-> "crashed", st |-> st, moved |-> moved]
             ELSE IF output = NULL
             THEN [result |-> "failed", st |-> st, moved |-> moved]
             ELSE IF con_get_workspace(st.cons, con) = NULL
             THEN [result |-> "crashed", st |-> st, moved |-> moved]
             ELSE MoveWorkspaces(MoveWorkspace(st, con, output, outs),
                                 Tail(ows), outs, name, Append(moved, con))

cmd_move_workspace_to_output(name) ==
    /\ HandlerReady
    /\ IF migration_test
       THEN MigrationNewPath("cmd_move_workspace_to_output", <<Str(name)>>)
       ELSE LET ows == HANDLE_EMPTY_MATCH(current_match, owindows, focused)
                r   == MoveWorkspaces(CurrentState, ows, outputs, name, <<>>)
                Record(log) ==
                    Call("cmd_move_workspace_to_output", <<Str(name)>>, ows,
                         r.moved, log, NULL, NULL)
            IN  /\ SaveOldParameters("cmd_move_workspace_to_output", <<Str(name)>>)
                /\ owindows' = ows
                /\ CASE r.result = "crashed" ->
                           /\ Abort
                           /\ call' = Record("NULL pointer dereference")
                     [] r.result = "failed" ->
                           /\ Return(r.st, FailureReply)
                           /\ call' = Record("No such output")
                     [] OTHER ->
                           /\ Return(tree_render(r.st, outputs), SuccessReply)
                           /\ call' = Record("should move workspace to output")

---------------------------------------------------------------------------
(* Commands that move the focus or switch the workspace. *)

\* tree_next: from the focused container up to the first container
\* whose parent is split in the orientation, then to the focused leaf of
\* its next ('n') or previous ('p') sibling, around the ends; nothing
\* when the workspace is reached first.
RECURSIVE tree_next(_, _, _, _)
tree_next(st, con, way, orientation) ==
    LET tr      == st.cons
        parent  == tr[con].parent
        siblings == tr[parent].nodes
        i       == CHOOSE i \in 1..Len(siblings) : siblings[i] = con
        next    == IF way = "n"
                   THEN siblings[IF i = Len(siblings) THEN 1 ELSE i + 1]
                   ELSE siblings[IF i = 1 THEN Len(siblings) ELSE i - 1]
        target  == con_descend_focused(tr, next)
    IN  IF tr[con].type \in {"CT_WORKSPACE", "CT_FLOATING_CON"} \/ parent = NULL
        THEN st
        ELSE IF tr[parent].orientation = orientation /\ Len(siblings) > 1
             /\ InSeq(con, siblings)
        THEN TreeState(con_focus(tr, target), target, st.previous)
        ELSE tree_next(st, parent, way, orientation)

\* level_up: the focus goes to the parent, not above a workspace.
level_up(st) ==
    LET parent == st.cons[st.focused].parent
    IN  IF st.cons[st.focused].type = "CT_WORKSPACE" \/ parent = NULL
           \/ st.cons[parent].type = "CT_FLOATING_CON"
        THEN st
        ELSE TreeState(st.cons, parent, st.previous)

\* level_down: the focus goes to the first child in focus order.
level_down(st) ==
    LET children == st.cons[st.focused].focus_head
    IN  IF children = <<>> THEN st
        ELSE TreeState(con_focus(st.cons, children[1]), children[1], st.previous)

\* Faulty variant: only a container that is fullscreen on all outputs
\* stops a focus command.
FocusedIsGlobalFullscreen ==
    /\ focused # NULL
    /\ cons[focused].type # "CT_WORKSPACE"
    /\ cons[focused].fullscreen_mode = "CF_GLOBAL"

\* The test all focus commands start with.
FocusedIsFullscreen ==
    /\ focused # NULL
    /\ cons[focused].type # "CT_WORKSPACE"
    /\ cons[focused].fullscreen_mode # "CF_NONE"

FocusErrorReply ==
    << [key |-> "success", val |-> "false"],
       [key |-> "error",
        val |-> "You have to specify which window/container should be focused"] >>

\* A focus handler: the capture, the fullscreen test, then its body, which
\* gives the tree state the handler leaves, its reply and its log line.
FocusHandler(fn, params, ows, body) ==
    /\ HandlerReady
    /\ IF migration_test THEN MigrationNewPath(fn, params)
       ELSE /\ SaveOldParameters(fn, params)
            /\ UNCHANGED owindows
            /\ IF FocusedIsFullscreen
               THEN /\ Return(CurrentState, FailureReply)
                    /\ call' = Call(fn, params, ows, <<>>,
                                    "Cannot change focus while in fullscreen mode.",
                                    NULL, NULL)
               ELSE /\ Return(body.st, body.reply)
                    /\ call' = Call(fn, params, ows, body.operated, body.log,
                                    NULL, NULL)

Body(st, r, operated, log) ==
    [st |-> st, reply |-> r, operated |-> operated, log |-> log]

cmd_focus_direction(direction) ==
    FocusHandler("cmd_focus_direction", <<Str(direction)>>, owindows,
        CASE direction = "left" ->
                Body(tree_next(CurrentState, focused, "p", "HORIZ"),
                     SuccessReply, <<focused>>, "direction")
          [] direction = "right" ->
                Body(tree_next(CurrentState, focused, "n", "HORIZ"),
                     SuccessReply, <<focused>>, "direction")
          [] direction = "up" ->
                Body(tree_next(CurrentState, focused, "p", "VERT"),
                     SuccessReply, <<focused>>, "direction")
          [] direction = "down" ->
                Body(tree_next(CurrentState, focused, "n", "VERT"),
                     SuccessReply, <<focused>>, "direction")
          [] OTHER ->
                Body(CurrentState, FailureReply, <<>>, "Invalid focus direction"))

\* The loop over the focus order of the workspace: the first container
\* of the wanted kind.
FirstOfMode(tr, order, window_mode) ==
    LET wanted == SelectSeq(order, LAMBDA current :
                     ~ \/ (window_mode = "floating"
                             /\ tr[current].type # "CT_FLOATING_CON")
                       \/ (window_mode = "tiling"
                             /\ tr[current].type = "CT_FLOATING_CON"))
    IN  IF wanted = <<>> THEN NULL ELSE wanted[1]

cmd_focus_window_mode(window_mode) ==
    LET ws    == con_get_workspace(cons, focused)
        order == cons[ws].focus_head
        mode  == IF window_mode = "mode_toggle"
                 THEN IF order # <<>> /\ cons[order[1]].type = "CT_FLOATING_CON"
                      THEN "tiling" ELSE "floating"
                 ELSE window_mode
        first == FirstOfMode(cons, order, mode)
        leaf  == con_descend_focused(cons, first)
    IN  FocusHandler("cmd_focus_window_mode", <<Str(window_mode)>>, owindows,
            IF ws = NULL \/ first = NULL
            THEN Body(CurrentState, SuccessReply, <<>>, "window_mode")
            ELSE Body(TreeState(con_focus(cons, leaf), leaf,
                                previous_workspace_name),
                      SuccessReply, <<leaf>>, "window_mode"))

cmd_focus_level(level) ==
    FocusHandler("cmd_focus_level", <<Str(level)>>, owindows,
        IF level = "parent"
        THEN Body(level_up(CurrentState), SuccessReply, <<focused>>, "level")
        ELSE Body(level_down(CurrentState), SuccessReply, <<focused>>, "level"))

\* The loop of cmd_focus: every container of the list that is on a
\* workspace is focused in turn.
RECURSIVE FocusAll(_, _)
FocusAll(st, ows) ==
    IF ows = <<>> THEN st
    ELSE LET con == Head(ows)
             ws  == con_get_workspace(st.cons, con)
             prepared == [st EXCEPT !.cons = con_focus(con_focus(st.cons, con),
                                                       st.focused)]
             shown == workspace_show(prepared, ws)
         IN  IF ws = NULL THEN FocusAll(st, Tail(ows))
             ELSE FocusAll(TreeState(con_focus(shown.cons, con), con,
                                     shown.previous),
                           Tail(ows))

cmd_focus ==
    FocusHandler("cmd_focus", <<>>, owindows,
        IF match_is_empty(current_match)
        THEN Body(CurrentState, FocusErrorReply, <<>>,
                  "You have to specify which window/container should be focused.")
        ELSE Body(FocusAll(CurrentState, owindows), SuccessReply, owindows,
                  "focusing"))

\* tree_close: the windows of the container and of the containers in it are
\* asked to close; a container leaves the tree when its window is gone.
tree_close(tr, con) ==
    [c \in Cons |->
        IF Within(tr, c, con) /\ tr[c].window # NoWindow
        THEN [tr[c] EXCEPT !.closing = TRUE]
        ELSE tr[c]]

\* tree_close_con: tree_close for the focused container.
tree_close_con(tr, foc) == tree_close(tr, foc)

RECURSIVE CloseAll(_, _)
CloseAll(tr, ows) ==
    IF ows = <<>> THEN tr ELSE CloseAll(tree_close(tr, Head(ows)), Tail(ows))

\* Faulty variant: the parameters are saved before the absent mode is
\* replaced by "window".
cmd_kill_saving_first(kill_mode_arg) ==
    LET kill_mode_str == IF kill_mode_arg = NoStr THEN "window" ELSE kill_mode_arg[1]
        params == <<kill_mode_arg>>
    IN  /\ HandlerReady
        /\ IF migration_test THEN MigrationNewPath("cmd_kill", params)
           ELSE /\ MigrationOldPath("cmd_kill", params)
                /\ UNCHANGED owindows
                /\ IF kill_mode_str \notin {"window", "client"}
                   THEN /\ cons' = cons
                        /\ reply' = FailureReply
                        /\ call' = Call("cmd_kill", params, owindows, <<>>,
                                        "BUG: called with kill_mode", NULL, NULL)
                   ELSE IF match_is_empty(current_match)
                   THEN /\ cons' = tree_close_con(cons, focused)
                        /\ reply' = SuccessReply
                        /\ call' = Call("cmd_kill", params, owindows, <<focused>>,
                                        "kill_mode", NULL, NULL)
                   ELSE /\ cons' = CloseAll(cons, owindows)
                        /\ reply' = SuccessReply
                        /\ call' = Call("cmd_kill", params, owindows, owindows,
                                        "matching", NULL, NULL)

cmd_kill(kill_mode_arg) ==
    LET kill_mode_str == IF kill_mode_arg = NoStr THEN "window" ELSE kill_mode_arg[1]
        params == <<Str(kill_mode_str)>>
    IN  /\ HandlerReady
        /\ IF migration_test THEN MigrationNewPath("cmd_kill", params)
           ELSE /\ MigrationOldPath("cmd_kill", params)
                /\ UNCHANGED owindows
                /\ IF kill_mode_str \notin {"window", "client"}
                   THEN /\ cons' = cons
                        /\ reply' = FailureReply
                        /\ call' = Call("cmd_kill", params, owindows, <<>>,
                                        "BUG: called with kill_mode", NULL, NULL)
                   ELSE IF match_is_empty(current_match)
                   THEN /\ cons' = tree_close_con(cons, focused)
                        /\ reply' = SuccessReply
                        /\ call' = Call("cmd_kill", params, owindows, <<focused>>,
                                        "kill_mode", NULL, NULL)
                   ELSE /\ cons' = CloseAll(cons, owindows)
                        /\ reply' = SuccessReply
                        /\ call' = Call("cmd_kill", params, owindows, owindows,
                                        "matching", NULL, NULL)

\* con_toggle_fullscreen: a fullscreen container leaves the mode; another
\* one enters it, in place of the containers that were in it.
con_toggle_fullscreen(tr, con, fullscreen_mode) ==
    IF tr[con].fullscreen_mode # "CF_NONE"
    THEN [tr EXCEPT ![con].fullscreen_mode = "CF_NONE"]
    ELSE [c \in Cons |->
             IF c = con THEN [tr[c] EXCEPT !.fullscreen_mode = fullscreen_mode]
             ELSE [tr[c] EXCEPT !.fullscreen_mode = "CF_NONE"]]

RECURSIVE ToggleAll(_, _, _)
ToggleAll(tr, ows, fullscreen_mode) ==
    IF ows = <<>> THEN tr
    ELSE ToggleAll(con_toggle_fullscreen(tr, Head(ows), fullscreen_mode),
                   Tail(ows), fullscreen_mode)

cmd_fullscreen(fullscreen_arg) ==
    LET fullscreen_mode == IF fullscreen_arg = NoStr THEN "output"
                           ELSE fullscreen_arg[1]
        params == <<Str(fullscreen_mode)>>
        ows == HANDLE_EMPTY_MATCH(current_match, owindows, focused)
    IN  /\ HandlerReady
        /\ IF migration_test THEN MigrationNewPath("cmd_fullscreen", params)
           ELSE /\ MigrationOldPath("cmd_fullscreen", params)
                /\ owindows' = ows
                /\ cons' = ToggleAll(cons, ows,
                                     IF fullscreen_mode = "global" THEN "CF_GLOBAL"
                                     ELSE "CF_OUTPUT")
                /\ reply' = SuccessReply
                /\ call' = Call("cmd_fullscreen", params, ows, ows,
                                "toggling fullscreen", NULL, NULL)

\* strncasecmp(name, "__i3_", strlen("__i3_")) == 0
IsInternalWorkspace(name) ==
    Len(name) >= 5 /\ ToLower(SubSeq(name, 1, 5)) = "__i3_"

\* The workspace of that name; the model has no command line that names
\* a workspace to be created.
WorkspaceByName(tr, name) ==
    CHOOSE ws \in Cons : tr[ws].type = "CT_WORKSPACE" /\ tr[ws].name = name

workspace_show_by_name(st, name) == workspace_show(st, WorkspaceByName(st.cons, name))

\* workspace_back_and_forth: to the workspace left last, if any.
workspace_back_and_forth(st) ==
    IF st.previous = NoStr THEN st
    ELSE workspace_show_by_name(st, st.previous[1])

cmd_workspace_name(name) ==
    LET ws == con_get_workspace(cons, focused)
        Record(operated, log) ==
            Call("cmd_workspace_name", <<Str(name)>>, owindows, operated, log,
                 NULL, NULL)
    IN  /\ HandlerReady
        /\ IF migration_test
           THEN MigrationNewPath("cmd_workspace_name", <<Str(name)>>)
           ELSE /\ SaveOldParameters("cmd_workspace_name", <<Str(name)>>)
                /\ UNCHANGED owindows
                /\ IF IsInternalWorkspace(name)
                   THEN /\ Return(CurrentState, FailureReply)
                        /\ call' = Record(<<>>, "You cannot switch to the i3 internal workspaces.")
                   ELSE IF cons[ws].name = name
                   THEN /\ Return(IF config.workspace_auto_back_and_forth
                                  THEN workspace_back_and_forth(CurrentState)
                                  ELSE CurrentState,
                                  FailureReply)
                        /\ call' = Record(<<>>, "This workspace is already focused.")
                   ELSE /\ Return(workspace_show_by_name(CurrentState, name),
                                  SuccessReply)
                        /\ call' = Record(<<WorkspaceByName(cons, name)>>,
                                          "should switch to workspace")

---------------------------------------------------------------------------
(* The commands the parser passes. *)

MarkArgs == {"m1", "new"}
BorderArgs == {"toggle", "none", "dotted"}
LayoutArgs == {"default", "stacking", "tabbed"}
WayArgs == {"grow", "shrink"}
DirectionArgs == {"up", "down", "left", "right"}
PxArgs == {"10"}
PptArgs == {"10", "46"}

CriteriaInit == cmd_criteria_init
MatchWindows == cmd_criteria_match_windows
CmdMark == \E mark \in MarkArgs : cmd_mark(mark)
CmdBorder == \E style \in BorderArgs : cmd_border(style)
CmdLayout == \E layout \in LayoutArgs : cmd_layout(layout)
CmdResize ==
    \E way \in WayArgs, direction \in DirectionArgs,
       px \in PxArgs, ppt \in PptArgs : cmd_resize(way, direction, px, ppt)

\* The few criteria of the migration test's command lines.
HarnessCriteriaArgs == {<<"class", "term">>}
HarnessCriteriaAdd ==
    \E a \in HarnessCriteriaArgs : cmd_criteria_add(a[1], a[2])
\* ... and their commands.
HarnessCmdMark == cmd_mark("new")
HarnessCmdLayout == cmd_layout("stacking")

CmdExit == cmd_exit
MigrationEnable == cmd_MIGRATION_enable
MigrationDisable == cmd_MIGRATION_disable
MigrationValidate ==
    \E fork_result \in ForkResults : cmd_MIGRATION_validate(fork_result)
NagbarEnds ==
    \E p \in Pids, how \in {"exited", "signaled"} : NagbarTerminates(p, how)
NagbarExited == \E p \in Pids : nagbar_exited(p)

\* The parser takes the next command line.
NextCommandLine ==
    /\ pc = "done"
    /\ nlines < MaxLines
    /\ nlines' = nlines + 1
    /\ pc' = "start"
    /\ UNCHANGED <<harnessvars, envvars>>
    /\ UNCHANGED <<cons, all_cons, focused, current_match, owindows,
                   migration_test, new_stackframes, old_stackframes, ncrit,
                   reply, call, before>>

---------------------------------------------------------------------------
(* Specifications. *)

\* An output of the list of outputs.
Output(name, x, y, con) ==
    [name |-> name, active |-> TRUE, rect |-> Rect(x, y, OutputSize, OutputSize),
     con |-> con]

\* Two outputs side by side, no workspace left behind, the default
\* configuration.
InitEnv ==
    /\ outputs = <<Output("LVDS1", 0, 0, CONTENT),
                   Output("VGA1", OutputSize, 0, CONTENT2)>>
    /\ config = [workspace_auto_back_and_forth |-> FALSE]
    /\ previous_workspace_name = NoStr

\* The arrangements of the two outputs.
OutputLayouts ==
    {<<Output("LVDS1", 0, 0, CONTENT), Output("VGA1", OutputSize, 0, CONTENT2)>>,
     <<Output("LVDS1", OutputSize, 0, CONTENT), Output("VGA1", 0, 0, CONTENT2)>>,
     <<Output("LVDS1", 0, 0, CONTENT), Output("VGA1", 0, OutputSize, CONTENT2)>>}

\* Everything but the flag and the buffers of the migration test.
InitParserState ==
    /\ all_cons = AllConsList
    /\ current_match = match_init
    /\ owindows = <<>>
    /\ pc = "start"
    /\ ncrit = 0
    /\ nlines = 1
    /\ reply = <<>>
    /\ call = NoCall
    /\ before = cons
    /\ migration_pid = 0 - 1
    /\ nagbar = [p \in Pids |-> "none"]
    /\ child_watchers = {}
    /\ cleanup_watchers = 0
    /\ killed = <<>>
    /\ validation = NoValidation
    /\ harness_before = NoHarnessCall

InitParser ==
    /\ migration_test = FALSE
    /\ new_stackframes = <<>>
    /\ old_stackframes = <<>>
    /\ InitParserState

\* One command line with criteria, on a tree with or without marks.
Init ==
    /\ \E marks \in {"unmarked", "marked"}, percents \in {"unset", "even"} :
          cons = Marks(Percents(Shaped(BaseTree, "NO_ORIENTATION", "HORIZ", "VERT",
                                        "L_DEFAULT"),
                                percents), marks)
    /\ focused \in {WIN_A, WIN_C, WS2}
    /\ ev_version_major = 4
    /\ InitEnv
    /\ InitParser

Next ==
    \/ CriteriaInit
    \/ CriteriaAdd
    \/ MatchWindows
    \/ CmdMark
    \/ CmdBorder
    \/ CmdLayout
    \/ CmdResize

Spec == Init /\ [][Next]_vars

\* Command lines without criteria that resize, on trees of every
\* orientation and layout of the two split levels.  commands.c never
\* writes the orientation of the content container, so every value of it
\* is tried on the trees without stacking.
InitResize ==
    /\ \/ \E wsOrientation \in {"HORIZ", "VERT"},
             splitOrientation \in {"HORIZ", "VERT"},
             splitLayout \in {"L_DEFAULT", "L_STACKED", "L_TABBED"},
             percents \in {"unset", "even", "file"} :
             cons = Percents(Shaped(BaseTree, "NO_ORIENTATION", wsOrientation,
                                    splitOrientation, splitLayout), percents)
       \/ \E contentOrientation \in {"HORIZ", "VERT"},
             wsOrientation \in {"HORIZ", "VERT"},
             splitOrientation \in {"HORIZ", "VERT"} :
             cons = Percents(Shaped(BaseTree, contentOrientation, wsOrientation,
                                    splitOrientation, "L_DEFAULT"), "unset")
       \/ \E wsLayout \in {"L_STACKED", "L_TABBED"} :
             cons = WorkspaceLayout(Shaped(BaseTree, "NO_ORIENTATION", "HORIZ",
                                           "VERT", "L_DEFAULT"), wsLayout)
    /\ focused \in {WIN_A, WIN_B, WIN_C, WIN_F}
    /\ ev_version_major = 4
    /\ InitEnv
    /\ InitParser

NextResize ==
    \/ CriteriaInit
    \/ CmdResize
    \/ NextCommandLine

SpecResize == InitResize /\ [][NextResize]_vars

\* The tree of the migration test's runs.
HarnessTree ==
    Marks(Percents(Shaped(BaseTree, "NO_ORIENTATION", "HORIZ", "VERT",
                          "L_DEFAULT"), "unset"), "marked")

\* The two parsers pass over command lines, with the functions of the
\* migration test called between the passes.
InitMigration ==
    /\ cons = HarnessTree
    /\ focused = WIN_A
    /\ ev_version_major = 4
    /\ InitEnv
    /\ InitParser

NextMigration ==
    \/ MigrationEnable
    \/ MigrationDisable
    \/ MigrationValidate
    \/ CriteriaInit
    \/ HarnessCriteriaAdd
    \/ MatchWindows
    \/ HarnessCmdMark
    \/ HarnessCmdLayout
    \/ NextCommandLine

SpecMigration == InitMigration /\ [][NextMigration]_vars

\* Frames as the handlers save them: a match and the parameters, the
\* first of which is the name of the handler.
SampleFrames ==
    {SaveParameters(<<>>, match_init, <<Str("cmd_mark"), Str("m1")>>)[1],
     SaveParameters(<<>>, match_init, <<Str("cmd_mark"), Str("new")>>)[1],
     SaveParameters(<<>>, AddCriterion(match_init, "class", "term"),
                    <<Str("cmd_mark"), Str("m1")>>)[1],
     SaveParameters(<<>>, AddCriterion(match_init, "class", "zsh"),
                    <<Str("cmd_mark"), Str("m1")>>)[1],
     SaveParameters(<<>>, AddCriterion(match_init, "con_id", "3"),
                    <<Str("cmd_mark"), Str("m1")>>)[1],
     SaveParameters(<<>>, match_init,
                    <<Str("cmd_exec"), NoStr, Str("xterm")>>)[1],
     SaveParameters(<<>>, match_init,
                    <<Str("cmd_exec"), Str("--no-startup-id"), Str("xterm")>>)[1]}

\* Those of them the pass of the new parser saved.
NewSampleFrames ==
    {frame \in SampleFrames :
        /\ frame.match.class \in {NoStr, Str("term")}
        /\ frame.match.con_id = NULL
        /\ frame.args[2] # Str("new")}

\* The buffers of up to MaxFrames frames.
SampleBuffers(frames) ==
    UNION {[1..n -> frames] : n \in 0..MaxFrames}

\* cmd_MIGRATION_validate on every pair of buffers.
InitValidate ==
    /\ cons = HarnessTree
    /\ focused = WIN_A
    /\ ev_version_major = 4
    /\ InitEnv
    /\ migration_test = FALSE
    /\ new_stackframes \in SampleBuffers(NewSampleFrames)
    /\ old_stackframes \in SampleBuffers(SampleFrames)
    /\ InitParserState

NextValidate == MigrationValidate

SpecValidate == InitValidate /\ [][NextValidate]_vars

\* One command line, with or without criteria, that names an output or a
\* direction, for every arrangement of the outputs.
OutputArgs == {"left", "right", "up", "down", "VGA1", "lvds1", "HDMI1"}
OutputCriteriaArgs == {<<"class", "firefox">>, <<"class", "zsh">>}
OutputCriteriaAdd ==
    \E a \in OutputCriteriaArgs : cmd_criteria_add(a[1], a[2])
CmdFocusOutput == \E name \in OutputArgs : cmd_focus_output(name)
CmdMoveConToOutput == \E name \in OutputArgs : cmd_move_con_to_output(name)
CmdMoveWorkspaceToOutput ==
    \E name \in OutputArgs : cmd_move_workspace_to_output(name)

InitOutput ==
    /\ outputs \in OutputLayouts
    /\ config = [workspace_auto_back_and_forth |-> FALSE]
    /\ previous_workspace_name = NoStr
    /\ focused \in {WIN_A, WIN_C, WS3}
    /\ cons = con_focus(Placed(HarnessTree, outputs), focused)
    /\ ev_version_major = 4
    /\ migration_test \in BOOLEAN
    /\ new_stackframes = <<>>
    /\ old_stackframes = <<>>
    /\ InitParserState

NextOutput ==
    \/ CriteriaInit
    \/ OutputCriteriaAdd
    \/ MatchWindows
    \/ CmdFocusOutput
    \/ CmdMoveConToOutput
    \/ CmdMoveWorkspaceToOutput

SpecOutput == InitOutput /\ [][NextOutput]_vars

\* One command line that moves the focus, switches the workspace or
\* carries a token or a number no command line should carry, with the
\* focused container in fullscreen mode or not.
FocusDirectionArgs == {"left", "right", "up", "down", "sideways"}
WindowModeArgs == {"tiling", "floating", "mode_toggle"}
LevelArgs == {"parent", "child"}
WorkspaceNameArgs == {"1", "2", "3", "__I3_scratch"}
BadResizeArgs ==
    {<<"grow", "right", "1o", "ten">>, <<"shrink", "down", "", "4x">>}
BadLayoutArgs == {"stacks"}
CmdFocus == cmd_focus
CmdFocusDirection == \E direction \in FocusDirectionArgs : cmd_focus_direction(direction)
CmdFocusWindowMode == \E window_mode \in WindowModeArgs : cmd_focus_window_mode(window_mode)
CmdFocusLevel == \E level \in LevelArgs : cmd_focus_level(level)
CmdWorkspaceName == \E name \in WorkspaceNameArgs : cmd_workspace_name(name)
CmdResizeBadNumber == \E a \in BadResizeArgs : cmd_resize(a[1], a[2], a[3], a[4])
CmdLayoutBadToken == \E layout \in BadLayoutArgs : cmd_layout(layout)

Fullscreen(tr, c) == [tr EXCEPT ![c].fullscreen_mode = "CF_OUTPUT"]

InitFocus ==
    /\ outputs = << Output("LVDS1", 0, 0, CONTENT),
                    Output("VGA1", OutputSize, 0, CONTENT2) >>
    /\ config \in [workspace_auto_back_and_forth : BOOLEAN]
    /\ previous_workspace_name \in {NoStr, Str("3")}
    /\ focused \in {WIN_A, WIN_B, WIN_F, WS2}
    /\ \E fullscreen \in BOOLEAN :
          cons = IF fullscreen /\ focused # WS2
                 THEN Fullscreen(con_focus(HarnessTree, focused), focused)
                 ELSE con_focus(HarnessTree, focused)
    /\ ev_version_major = 4
    /\ migration_test \in BOOLEAN
    /\ new_stackframes = <<>>
    /\ old_stackframes = <<>>
    /\ InitParserState

NextFocus ==
    \/ CriteriaInit
    \/ OutputCriteriaAdd
    \/ MatchWindows
    \/ CmdFocus
    \/ CmdFocusDirection
    \/ CmdFocusWindowMode
    \/ CmdFocusLevel
    \/ CmdWorkspaceName
    \/ CmdResizeBadNumber
    \/ CmdLayoutBadToken

SpecFocus == InitFocus /\ [][NextFocus]_vars

\* One command line whose criteria are a con_id or an id, most with a
\* value that is no id, before a command on the matched containers.
IdCriteriaArgs ==
    {<<"con_id", "-1">>, <<"con_id", "4x">>, <<"con_id", "0">>,
     <<"id", "-22">>, <<"id", "22 ">>, <<"con_id", "4">>}
KillArgs == {NoStr, Str("window"), Str("client"), Str("all")}
IdCriteriaAdd == \E a \in IdCriteriaArgs : cmd_criteria_add(a[1], a[2])
CmdKill == \E kill_mode_str \in KillArgs : cmd_kill(kill_mode_str)

InitKill ==
    /\ cons = HarnessTree
    /\ focused \in {WIN_A, WIN_C, WS2}
    /\ ev_version_major = 4
    /\ InitEnv
    /\ migration_test \in BOOLEAN
    /\ new_stackframes = <<>>
    /\ old_stackframes = <<>>
    /\ InitParserState

NextKill ==
    \/ CriteriaInit
    \/ IdCriteriaAdd
    \/ MatchWindows
    \/ CmdKill
    \/ CmdMark
    \/ CmdBorder

SpecKill == InitKill /\ [][NextKill]_vars

\* The two parsers pass over a command line with kill, fullscreen or
\* layout: the new one hands over an absent mode as NULL and the layout
\* as it was typed, the old one hands over the mode and the layout it
\* has decoded.
NewKillArgs == {NoStr, Str("client")}
OldKillArgs == {Str("window"), Str("client")}
NewFullscreenArgs == {NoStr, Str("global")}
OldFullscreenArgs == {Str("output"), Str("global")}
NewLayoutArgs == {"stacking", "tabbed"}
OldLayoutArgs == {"stacked", "tabbed"}
AliasCmdKill ==
    \E kill_mode_str \in IF migration_test THEN NewKillArgs ELSE OldKillArgs :
        cmd_kill(kill_mode_str)
AliasCmdFullscreen ==
    \E fullscreen_mode \in IF migration_test THEN NewFullscreenArgs
                            ELSE OldFullscreenArgs :
        cmd_fullscreen(fullscreen_mode)
AliasCmdLayout ==
    \E layout_str \in IF migration_test THEN NewLayoutArgs ELSE OldLayoutArgs :
        cmd_layout(layout_str)

InitAlias ==
    /\ cons = HarnessTree
    /\ focused \in {WIN_A, WIN_C}
    /\ ev_version_major = 4
    /\ InitEnv
    /\ InitParser

NextAlias ==
    \/ MigrationEnable
    \/ MigrationDisable
    \/ MigrationValidate
    \/ CriteriaInit
    \/ AliasCmdKill
    \/ AliasCmdFullscreen
    \/ AliasCmdLayout
    \/ NextCommandLine

SpecAlias == InitAlias /\ [][NextAlias]_vars

\* Command lines that move a workspace to an output, one after the
\* other, with the focus taken to an output in between.
InitMoveWorkspace ==
    /\ outputs \in OutputLayouts
    /\ config = [workspace_auto_back_and_forth |-> FALSE]
    /\ previous_workspace_name = NoStr
    /\ focused \in {WIN_A, WIN_C, WS3}
    /\ cons = con_focus(Placed(HarnessTree, outputs), focused)
    /\ ev_version_major = 4
    /\ InitParser

NextMoveWorkspace ==
    \/ CriteriaInit
    \/ CmdFocusOutput
    \/ CmdMoveWorkspaceToOutput
    \/ NextCommandLine

SpecMoveWorkspace == InitMoveWorkspace /\ [][NextMoveWorkspace]_vars

\* Validations that fail or not, the i3-nagbar processes they start, the
\* end of these processes and the exit of i3, in every order.
InitNagbar ==
    /\ cons = HarnessTree
    /\ focused = WIN_A
    /\ ev_version_major \in {3, 4}
    /\ InitEnv
    /\ migration_test \in BOOLEAN
    /\ \E frame \in SampleFrames :
          /\ new_stackframes \in {<<>>, <<frame>>}
          /\ old_stackframes \in {<<>>, <<frame>>}
    /\ InitParserState

NextNagbar ==
    \/ MigrationValidate
    \/ NagbarEnds
    \/ NagbarExited
    \/ CriteriaInit
    \/ CmdExit

SpecNagbar == InitNagbar /\ [][NextNagbar]_vars

---------------------------------------------------------------------------
(* Properties of the working set. *)

\* The handler of the command line has just returned; call, before and
\* reply describe this call.
Returned == pc = "done" /\ call.executed

\* The handlers that work on the list of matched containers.
ContainerScoped == {"cmd_mark", "cmd_border", "cmd_layout"}

RECURSIVE IsSubsequence(_, _)
IsSubsequence(s, t) ==
    IF s = <<>> THEN TRUE
    ELSE IF t = <<>> THEN FALSE
    ELSE IF Head(s) = Head(t) THEN IsSubsequence(Tail(s), Tail(t))
    ELSE IsSubsequence(s, Tail(t))

NoDuplicates(s) == \A i, j \in 1..Len(s) : s[i] = s[j] => i = j

\* C1: a container-scoped handler called with an empty match and carried
\* out hands exactly the focused container, and no other, to the tree.
C1_EmptyMatchOperatesOnFocused ==
    (/\ Returned
     /\ call.fn \in ContainerScoped
     /\ match_is_empty(call.match)
     /\ reply = SuccessReply)
    => call.operated = <<call.focused>>

\* C2: with a mark predicate and no con_id, a candidate that has a mark is
\* in the list after cmd_criteria_match_windows exactly if the regex
\* matches its mark, and its window is never looked at.
C2_MarkDecidesMarkedCandidates ==
    (pc = "matched" /\ current_match.mark # NoStr /\ current_match.con_id = NULL)
    => \A c \in Cons :
          cons[c].mark # NoStr =>
             /\ InSeq(c, owindows) <=>
                    regex_matches(current_match.mark, cons[c].mark[1])
             /\ MatchBranch(current_match, cons, c) \notin
                    {"matches window", "doesnt match"}

\* C3: with con_id set, a container is in the list after
\* cmd_criteria_match_windows exactly if it is the container con_id names,
\* whatever the other predicates, its mark and its window are.
C3_ConIdAlone ==
    (pc = "matched" /\ current_match.con_id # NULL)
    => \A c \in Cons : InSeq(c, owindows) <=> c = current_match.con_id

\* A con_id naming the split container, which has no window, together
\* with a class predicate no window satisfies.
C3_Witness ==
    /\ pc = "matched"
    /\ current_match.con_id = SPLIT
    /\ current_match.class = Str("zsh")
    /\ owindows = <<SPLIT>>

\* C4: without con_id, a candidate the mark branch does not apply to (no
\* mark predicate, or no mark on the candidate) is in the list exactly if
\* it has a window and every present window predicate matches it.
C4_WindowPredicates ==
    (pc = "matched" /\ current_match.con_id = NULL)
    => \A c \in Cons :
          (current_match.mark = NoStr \/ cons[c].mark = NoStr) =>
             (InSeq(c, owindows) <=>
                 /\ cons[c].window # NoWindow
                 /\ match_matches_window(current_match, cons[c].window[1]))

\* A class and a title predicate: one window satisfies both, one only the
\* title, and the containers without a window are gone.
C4_Witness ==
    /\ pc = "matched"
    /\ current_match.con_id = NULL
    /\ current_match.mark = NoStr
    /\ current_match.class = Str("term")
    /\ current_match.title = Str("mail")
    /\ owindows = <<WIN_A>>

\* C5: the list after cmd_criteria_init and cmd_criteria_match_windows is
\* a subsequence of all_cons: only containers of all_cons, none twice, in
\* the order of all_cons.
C5_FilteredSubsequence ==
    pc = "matched" => IsSubsequence(owindows, all_cons) /\ NoDuplicates(owindows)

\* Several containers are kept, several dropped, and the list order of
\* all_cons differs from the order of the addresses.
C5_Witness ==
    /\ pc = "matched"
    /\ Len(owindows) >= 3
    /\ Len(owindows) < Len(all_cons)
    /\ \E i \in 1..(Len(owindows) - 1) : owindows[i] > owindows[i + 1]

\* C6: a handler called with a non-empty match whose list is empty leaves
\* the whole tree as it was.
C6_NoMatchNoMutation ==
    (Returned /\ ~match_is_empty(call.match) /\ call.owindows = <<>>)
    => cons = before

---------------------------------------------------------------------------
(* Properties of the tiling resize. *)

\* The last call was a cmd_resize that took the tiling branch.
TilingResizeCall ==
    /\ Returned
    /\ call.fn = "cmd_resize"
    /\ call.log # "floating resize"

CallDirection == call.args[2][1]

\* Every split from the container up to and including its workspace has
\* the given orientation.
RECURSIVE EnclosedBy(_, _, _)
EnclosedBy(tr, c, orientation) ==
    IF tr[c].type = "CT_WORKSPACE" THEN TRUE
    ELSE /\ tr[tr[c].parent].orientation = orientation
         /\ EnclosedBy(tr, tr[c].parent, orientation)

PercentsUnchanged == \A c \in Cons : cons[c].percent = before[c].percent

\* C7: after a tiling resize that found a neighbour, either both
\* participants have the percent they had before the call or both are
\* above the floor.
C7_UnchangedOrAboveFloor ==
    (TilingResizeCall /\ call.other # NULL)
    => \/ /\ cons[call.current].percent = before[call.current].percent
          /\ cons[call.other].percent = before[call.other].percent
       \/ /\ cons[call.current].percent > PercentFloor
          /\ cons[call.other].percent > PercentFloor

\* C8: a tiling resize that is skipped at the floor test leaves the
\* percent of both participants as it was before the call, 0.0 included.
C8_SkippedResizeChangesNothing ==
    (TilingResizeCall /\ call.log = "Not resizing, already at minimum size")
    => /\ cons[call.current].percent = before[call.current].percent
       /\ cons[call.other].percent = before[call.other].percent

\* C9: a tiling resize up or down from inside horizontal splits only, or
\* left or right from inside vertical splits only, is refused and changes
\* nothing.
C9_OtherOrientationRefused ==
    (/\ TilingResizeCall
     /\ \/ /\ CallDirection \in {"up", "down"}
           /\ EnclosedBy(before, call.focused, "HORIZ")
        \/ /\ CallDirection \in {"left", "right"}
           /\ EnclosedBy(before, call.focused, "VERT"))
    => reply = FailureReply /\ cons = before

\* C10: the neighbour of a tiling resize is the previous sibling of the
\* resolved container for up and left and the next one for down and
\* right; without such a sibling the reply is the failure reply and no
\* percent has changed.
C10_NeighbourOrNothing ==
    (TilingResizeCall /\ call.log # "You cannot resize in that direction")
    => /\ call.other = IF CallDirection \in {"up", "left"}
                       THEN TAILQ_PREV(before, call.current)
                       ELSE TAILQ_NEXT(before, call.current)
       /\ call.other = NULL => (reply = FailureReply /\ PercentsUnchanged)

\* No previous sibling, and the unset percent of the container is still
\* unset after the call.
C10_Witness ==
    /\ TilingResizeCall
    /\ call.log = "No other container in this direction found"
    /\ CallDirection \in {"up", "left"}
    /\ call.other = NULL
    /\ before[call.current].percent = 0
    /\ cons[call.current].percent = 0
    /\ reply = FailureReply

\* The pixels and percent points of the call, negated for shrink.
CallPx ==
    IF call.args[1][1] = "shrink" THEN 0 - atoi(call.args[3][1])
    ELSE atoi(call.args[3][1])

CallPpt ==
    IF call.args[1][1] = "shrink" THEN 0 - atoi(call.args[4][1])
    ELSE atoi(call.args[4][1])

\* The percent of a container on entry, an unset one read as the default
\* share 1 / children of its parent.
EntryPercent(c) ==
    IF before[c].percent = 0
    THEN PercentScale \div Len(before[before[c].parent].nodes)
    ELSE before[c].percent

\* Everything but the percent of the container is as on entry.
SameButPercent(c) ==
    [cons[c] EXCEPT !.percent = 0] = [before[c] EXCEPT !.percent = 0]

\* Everything but the rect of the container is as on entry.
SameButRect(c) ==
    [cons[c] EXCEPT !.rect = Rect(0, 0, 0, 0)] =
        [before[c] EXCEPT !.rect = Rect(0, 0, 0, 0)]

C13_NoOpRepliesFailure ==
    (/\ Returned
     /\ \/ call.log = "Not resizing, already at minimum size"
        \/ call.log = "No other container in this direction found"
        \/ (~match_is_empty(call.match) /\ call.owindows = <<>>))
    => reply = FailureReply

\* A step in which the parser calls a command handler.
HandlerStep == HandlerReady /\ pc' = "done"

\* The frame of the handler called in that step: the match as it was, and
\* the name of the handler before its arguments.
HandlerFrame ==
    [match |-> current_match, n_args |-> 1 + Len(call'.args),
     args |-> <<Str(call'.fn)>> \o call'.args]

\* C14: with the test enabled a call of a command handler appends one
\* frame (the match, the handler's name and its arguments in order) to the
\* buffer of the new parser, changes no container and gives no reply;
\* without it the call appends the same frame to the buffer of the old
\* parser and executes, and a container only ever changes in such a call.
C14_CaptureThenExecute ==
    [][/\ HandlerStep /\ migration_test =>
            /\ new_stackframes' = Append(new_stackframes, HandlerFrame)
            /\ old_stackframes' = old_stackframes
            /\ cons' = cons /\ focused' = focused
            /\ reply' = <<>>
       /\ HandlerStep /\ ~migration_test =>
            /\ old_stackframes' = Append(old_stackframes, HandlerFrame)
            /\ new_stackframes' = new_stackframes
            /\ call'.executed /\ reply' # <<>>
       /\ cons' # cons => HandlerStep /\ ~migration_test]_vars

\* Both parsers passed over "mark new": the frames are equal and the
\* focused container was marked, by the pass of the old parser.
C14_Witness ==
    /\ pc = "done" /\ call.fn = "cmd_mark" /\ call.executed
    /\ new_stackframes # <<>>
    /\ new_stackframes = old_stackframes
    /\ cons[focused].mark = Str("new")
    /\ HarnessTree[focused].mark # Str("new")

\* The positions at which the two buffers hold different frames: a match
\* field or an argument differs, or the numbers of arguments do.
DifferingFrames ==
    {i \in 1..Len(new_stackframes) :
        new_stackframes[i] # old_stackframes[i]}

\* C15: cmd_MIGRATION_validate logs OK exactly when the two buffers have the
\* same length and equal frames at every position (match fields and
\* arguments alike, NULL equal to NULL only), and FAILED otherwise; with
\* equal lengths the frame it logs is the first at which they differ,
\* counted from 0.
C15_ValidateComparesBuffers ==
    validation.result # "" =>
        /\ validation.result \in {"OK", "FAILED"}
        /\ validation.result = "OK" <=> new_stackframes = old_stackframes
        /\ validation.result = "FAILED"
           /\ Len(new_stackframes) = Len(old_stackframes) =>
               /\ validation.frame + 1 \in DifferingFrames
               /\ \A i \in DifferingFrames : validation.frame + 1 <= i

\* Two buffers of two frames validated, equal in the first frame and
\* different in the second.
C15_Witness ==
    /\ validation.result = "FAILED" /\ validation.frame = 1
    /\ Len(new_stackframes) = 2 /\ Len(old_stackframes) = 2
    /\ new_stackframes[1] = old_stackframes[1]

\* The diagnostic processes started whose end nagbar_exited has not seen.
Outstanding == {p \in Pids : Unobserved(p)}

\* A step of cmd_MIGRATION_validate.
ValidateStep == \E fork_result \in ForkResults : cmd_MIGRATION_validate(fork_result)

\* C16: whatever the order of failed validations and of ends of i3-nagbar,
\* at most one i3-nagbar is outstanding; a validation that fails while one
\* is outstanding starts no process, and a validation changes no container
\* and returns to the parser.
C16_OneNagbarOutstanding ==
    [][/\ Cardinality(Outstanding') <= 1
       /\ ValidateStep /\ Outstanding # {} =>
            /\ nagbar' = nagbar /\ child_watchers' = child_watchers
            /\ validation'.result = "FAILED" =>
                   validation'.spawn = "i3-nagbar already running"
       /\ ValidateStep =>
            cons' = cons /\ focused' = focused /\ pc' = pc /\ pc' # "exited"]_vars

\* A validation failed while an i3-nagbar was running, and started nothing.
C16_Witness ==
    /\ validation.result = "FAILED" /\ validation.pending
    /\ validation.spawn = "i3-nagbar already running"
    /\ Cardinality({p \in Pids : nagbar[p] = "running"}) = 1
    /\ Cardinality({p \in Pids : nagbar[p] = "none"}) = MaxNagbars - 1

\* C17: once nagbar_exited has seen the end of i3-nagbar, however it ended,
\* none is outstanding: a validation that fails with every process seen
\* does not find one "already running", and no cleanup sends SIGKILL to a
\* process already seen.
C17_ObservedEndClearsHandle ==
    /\ validation.result = "FAILED" /\ ~validation.pending =>
           validation.spawn \in {"Starting i3-nagbar", "Could not fork()"}
    /\ \A i \in 1..Len(killed) : killed[i].state # "observed"

\* SIGKILL was sent to the process.
Killed(p) == \E i \in 1..Len(killed) : killed[i].pid = p

\* C18 as stated: when i3 exits, by the exit command too, every i3-nagbar
\* started and not yet seen to have ended has been sent SIGKILL.
C18_ExitKillsOutstanding ==
    pc = "exited" => \A p \in Outstanding : Killed(p)

\* C18, amended: the same, in a build against libev 4 or later.
C18_ExitKillsOutstandingWithCleanup ==
    ev_version_major >= 4 /\ pc = "exited" => \A p \in Outstanding : Killed(p)

\* i3 exited by the exit command while an i3-nagbar was running, and the
\* cleanup watcher killed it.
C18_Witness ==
    /\ ev_version_major >= 4 /\ pc = "exited" /\ call.fn = "cmd_exit"
    /\ \E i \in 1..Len(killed) :
           killed[i].state = "running" /\ killed[i].pid \in Outstanding

\* A step in which the named function of the migration test is called;
\* harness_before then holds the state it was called in.
HarnessStep(fn) ==
    harness_before' # harness_before /\ harness_before'.fn = fn

\* C19: whatever the flag and the buffers were, cmd_MIGRATION_enable
\* leaves the test enabled and both buffers empty, and touches nothing
\* else; so a second call right after it changes nothing.
C19_EnableClearsBuffers ==
    [][HarnessStep("cmd_MIGRATION_enable") =>
           /\ migration_test'
           /\ new_stackframes' = <<>> /\ old_stackframes' = <<>>
           /\ cons' = cons /\ focused' = focused /\ pc' = pc
           /\ (migration_test /\ new_stackframes = <<>>
                  /\ old_stackframes = <<>> => HarnessState' = HarnessState)]_vars

\* cmd_MIGRATION_enable was called with the test disabled and several
\* frames in each buffer.
C19_Witness ==
    /\ harness_before.fn = "cmd_MIGRATION_enable"
    /\ ~harness_before.state.migration_test
    /\ Len(harness_before.state.new_stackframes) > 1
    /\ Len(harness_before.state.old_stackframes) > 1
    /\ migration_test /\ new_stackframes = <<>> /\ old_stackframes = <<>>

\* C20 as stated: cmd_MIGRATION_disable leaves the test disabled and both
\* buffers empty.
C20_DisableReleasesFrames ==
    [][HarnessStep("cmd_MIGRATION_disable") =>
           /\ ~migration_test'
           /\ new_stackframes' = <<>> /\ old_stackframes' = <<>>]_vars

\* C20, amended: cmd_MIGRATION_disable leaves the test disabled and both
\* buffers with the frames they had.
C20_DisableKeepsFrames ==
    [][HarnessStep("cmd_MIGRATION_disable") =>
           /\ ~migration_test'
           /\ new_stackframes' = new_stackframes
           /\ old_stackframes' = old_stackframes]_vars

\* cmd_MIGRATION_disable was called after the pass of the new parser, and
\* the frames of that pass are still there.
C20_Witness ==
    /\ harness_before.fn = "cmd_MIGRATION_disable"
    /\ harness_before.state.migration_test
    /\ harness_before.state.new_stackframes # <<>>
    /\ ~migration_test
    /\ new_stackframes = harness_before.state.new_stackframes

\* C21 as stated: a validation that succeeds consumes the frames, both
\* buffers are empty after it.
C21_SuccessConsumesFrames ==
    [][ValidateStep /\ validation'.result = "OK" =>
           new_stackframes' = <<>> /\ old_stackframes' = <<>>]_vars

\* C21, amended: a validation, successful or not, leaves both buffers as
\* they were, and it compares the buffers whole, the frames an earlier
\* validation found equal included.
C21_ValidationKeepsFrames ==
    [][ValidateStep =>
           /\ new_stackframes' = new_stackframes
           /\ old_stackframes' = old_stackframes
           /\ validation'.result = "OK" <=> new_stackframes = old_stackframes]_vars

\* A validation succeeded on buffers that hold frames, after the passes
\* of both parsers, and the frames are still in both buffers.
C21_Witness ==
    /\ validation.result = "OK"
    /\ harness_before.fn = "cmd_MIGRATION_disable"
    /\ pc = "done" /\ call.executed
    /\ validation.new_count > 0
    /\ Len(new_stackframes) = validation.new_count
    /\ new_stackframes = old_stackframes

\* C22: a command handler other than cmd_exit returns to the parser,
\* whatever the criteria matched, and when it executed it returns a reply;
\* it never ends the process on a failed assertion or a NULL pointer.
C22_HandlersReturnReply ==
    /\ pc # "aborted"
    /\ Returned /\ call.fn # "cmd_exit" => reply # <<>>

\* The string is one of the four direction words.
IsDirection(str) ==
    \E d \in {"left", "right", "up", "down"} : strcasecmp_equal(str, d)

\* C24: focus output and move container to output resolve a direction word
\* to the next output in the direction, or without one to the last output
\* on the other side, and any other string to the output of that name;
\* these two and move workspace to output find no output only for a string
\* that is no direction word and names no output.
C24_OutputResolution ==
    /\ (Returned /\ call.fn \in {"cmd_focus_output", "cmd_move_con_to_output"}) =>
           call.other = get_output_from_string(outputs, call.current, call.args[1][1])
    /\ (Returned /\ call.log \in {"No such output found.", "No such output"}) =>
           /\ ~IsDirection(call.args[1][1])
           /\ get_output_by_name(outputs, call.args[1][1]) = NULL

\* The string is no number: it is empty or has characters after the digits.
Unparseable(str) == str = "" \/ strtol(str).end # ""

\* An executed call with an argument that is a user error: a number
\* of resize that is none, a layout or a focus direction that does not
\* exist.
BadArgumentCall ==
    /\ Returned
    /\ \/ /\ call.fn = "cmd_resize"
          /\ Unparseable(call.args[3][1]) \/ Unparseable(call.args[4][1])
       \/ /\ call.fn = "cmd_layout"
          /\ call.args[1][1] \notin {"default", "stacked", "tabbed"}
       \/ /\ call.fn = "cmd_focus_direction"
          /\ ~IsDirection(call.args[1][1])

\* C23: a handler called with an argument that is a user error - an
\* unknown mode token, an unparseable number, an invalid direction -
\* returns a failure reply and changes no container.
C23_BadArgumentFails ==
    BadArgumentCall => reply = FailureReply /\ cons = before

\* The reply has a field named success that is true or false.
HasSuccessField(r) ==
    \E i \in 1..Len(r) : r[i].key = "success" /\ r[i].val \in {"true", "false"}

\* C25: every reply of an executed handler carries the field success,
\* true when the command was carried out and false on every failure.
C25_ReplyCarriesSuccess ==
    Returned => HasSuccessField(reply)

\* The reply reports a failure.
IsFailure(r) == r \in {FailureReply, FocusErrorReply}

\* C26: a handler that returns a failure reply has left the tree, the
\* focus and the visible workspaces as they were before the call.
C26_FailureMutatesNothing ==
    Returned /\ IsFailure(reply) =>
        /\ cons = before
        /\ focused = call.focused
        /\ \A ws \in Cons : cons[ws].type = "CT_WORKSPACE" =>
               (workspace_is_visible(cons, ws) <=> workspace_is_visible(before, ws))

FocusFunctions ==
    {"cmd_focus", "cmd_focus_direction", "cmd_focus_window_mode", "cmd_focus_level"}

\* An executed focus command found the focused container, which is no
\* workspace, in fullscreen mode.
FullscreenFocusCall ==
    /\ Returned
    /\ call.fn \in FocusFunctions
    /\ before[call.focused].type # "CT_WORKSPACE"
    /\ before[call.focused].fullscreen_mode # "CF_NONE"

\* C30: while the focused container is no workspace and is in fullscreen
\* mode, each of the four focus commands returns a failure reply and
\* leaves the focus and the tree as they were.
C30_FullscreenKeepsFocus ==
    FullscreenFocusCall =>
        /\ reply = FailureReply
        /\ focused = call.focused
        /\ cons = before

\* A focus command with criteria that matched a window other than the
\* focused one was called in fullscreen mode.
C30_Witness ==
    /\ FullscreenFocusCall
    /\ call.fn = "cmd_focus"
    /\ ~match_is_empty(call.match)
    /\ \E i \in 1..Len(call.owindows) : call.owindows[i] # call.focused

\* C27: the two containers whose percent a tiling resize changes are
\* never children of a stacked or tabbed container, whatever the tree and
\* the direction.
C27_NotUnderStackedOrTabbed ==
    (TilingResizeCall /\ call.other # NULL) =>
        before[before[call.current].parent].layout \notin {"L_STACKED", "L_TABBED"}

\* C28: a tiling resize changes the percent of no workspace.
C28_WorkspacePercentsKept ==
    TilingResizeCall =>
        \A c \in Cons : before[c].type = "CT_WORKSPACE" =>
            cons[c].percent = before[c].percent

\* The match after the one criterion of the model that is an id.
ParsedIdMatch == [match_init EXCEPT !.con_id = 4]

\* An executed handler was called after criteria that are a con_id or an
\* id each.
IdCriteriaCall == Returned /\ ncrit >= 1

\* C29: a con_id or id criterion with a negative value or with characters
\* after the digits, or a con_id of 0, leaves the match as it was, so after
\* such criteria only the match is still empty and the command is carried
\* out on the focused container: cmd_kill closes it, a handler with
\* HANDLE_EMPTY_MATCH iterates the list that holds it alone.
C29_UnparseableIdMeansFocused ==
    IdCriteriaCall =>
        /\ call.match \in {match_init, ParsedIdMatch}
        /\ call.match = match_init =>
               /\ match_is_empty(call.match)
               /\ call.fn = "cmd_kill" /\ reply = SuccessReply =>
                      /\ call.operated = <<call.focused>>
                      /\ cons = tree_close(before, call.focused)
               /\ call.fn \in {"cmd_mark", "cmd_border"} =>
                      /\ call.owindows = <<call.focused>>
                      /\ \A c \in Cons \ {call.focused} :
                             cons[c].border_style = before[c].border_style

\* A kill after one unparseable criterion closed the focused window.
C29_Witness ==
    /\ IdCriteriaCall
    /\ call.match = match_init
    /\ call.fn = "cmd_kill"
    /\ before[call.focused].window # NoWindow
    /\ ~before[call.focused].closing
    /\ cons[call.focused].closing

\* An executed cmd_mark.
MarkCall == Returned /\ call.fn = "cmd_mark"

\* C32: after an executed cmd_mark(m) the containers whose mark is m are
\* exactly those of the list the command iterated, the focused container
\* alone for an empty match; a container outside the list that carried m
\* has no mark, and one that carried another mark or none has what it had.
C32_MarkExactlyWorkingSet ==
    MarkCall =>
        \A c \in Cons :
            /\ cons[c].mark = call.args[1] <=> InSeq(c, call.owindows)
            /\ ~InSeq(c, call.owindows) =>
                   cons[c].mark = IF before[c].mark = call.args[1] THEN NoStr
                                  ELSE before[c].mark

\* A mark was moved: a container outside the list carried it before the
\* call, and a container of the list that did not has it now.
C32_Witness ==
    /\ MarkCall
    /\ \E c \in Cons :
          /\ before[c].mark = call.args[1]
          /\ ~InSeq(c, call.owindows)
          /\ cons[c].mark = NoStr
    /\ \E c \in Cons :
          /\ InSeq(c, call.owindows)
          /\ before[c].mark # call.args[1]
          /\ cons[c].mark = call.args[1]
    /\ \E c \in Cons :
          /\ ~InSeq(c, call.owindows)
          /\ before[c].mark \notin {NoStr, call.args[1]}

\* The form of an argument that stands for its default or its alias: the
\* absent mode of kill is "window", the absent mode of fullscreen is
\* "output", the layout "stacking" is "stacked".
NormalForm(fn, arg) ==
    CASE fn = Str("cmd_kill") /\ arg = NoStr -> Str("window")
      [] fn = Str("cmd_fullscreen") /\ arg = NoStr -> Str("output")
      [] fn = Str("cmd_layout") /\ arg = Str("stacking") -> Str("stacked")
      [] OTHER -> arg

\* Two frames of the same call that differ in such forms at most.
SameCommand(f, g) ==
    /\ f.match = g.match
    /\ f.n_args = g.n_args
    /\ f.args[1] = g.args[1]
    /\ \A j \in 2..f.n_args :
           NormalForm(f.args[1], f.args[j]) = NormalForm(g.args[1], g.args[j])

SameCommands(new, old) ==
    /\ Len(new) = Len(old)
    /\ \A i \in 1..Len(new) : SameCommand(new[i], old[i])

\* No saved frame holds a default or an alias as it was handed over.
FramesNormalised ==
    \A frames \in {new_stackframes, old_stackframes} :
        \A i \in 1..Len(frames) :
            \A j \in 2..frames[i].n_args :
                frames[i].args[j] = NormalForm(frames[i].args[1], frames[i].args[j])

\* C33: defaults and aliases are replaced before the frame is saved - an
\* absent mode of kill is saved as "window", an absent mode of fullscreen
\* as "output", the layout "stacking" as "stacked" - so the validation
\* succeeds on two buffers whose frames differ only in these forms.
C33_AliasesCompareEqual ==
    /\ []FramesNormalised
    /\ [][ValidateStep /\ SameCommands(new_stackframes, old_stackframes) =>
              validation'.result = "OK"]_vars

\* The new parser handed over a kill without a mode, saved as "window",
\* the old parser a kill with its mode, and the validation after the two
\* passes succeeded.
C33_Witness ==
    /\ validation.result = "OK"
    /\ harness_before.fn = "cmd_MIGRATION_disable"
    /\ pc = "done" /\ call.executed /\ call.fn = "cmd_kill"
    /\ validation.new_count = Len(new_stackframes)
    /\ new_stackframes = old_stackframes
    /\ \E i \in 1..Len(new_stackframes) :
          new_stackframes[i].args = <<Str("cmd_kill"), Str("window")>>

\* Every output has a workspace.
OutputsHaveWorkspace ==
    \A o \in 1..Len(outputs) : cons[outputs[o].con].nodes # <<>>

\* The workspaces of the containers an executed move workspace to output
\* went through that were alone on their output before the call.
OnlyWorkspacesMoved ==
    {con_get_workspace(before, call.operated[i]) : i \in 1..Len(call.operated)}
        \cap {ws \in Cons : /\ before[ws].type = "CT_WORKSPACE"
                            /\ before[before[ws].parent].nodes = <<ws>>}

\* C31: whatever workspaces were moved to whatever outputs, every output
\* still has a workspace; a workspace that is the only one on its output
\* stays there, and the command that was to move it replies success.
C31_OutputsKeepWorkspace ==
    /\ OutputsHaveWorkspace
    /\ (Returned /\ call.fn = "cmd_move_workspace_to_output"
           /\ reply # FailureReply) =>
           /\ reply = SuccessReply
           /\ \A ws \in OnlyWorkspacesMoved :
                  /\ cons[ws].parent = before[ws].parent
                  /\ cons[before[ws].parent].nodes = <<ws>>

\* The second command line was to move the only workspace of an output
\* to the other output.
C31_Witness ==
    /\ Returned /\ call.fn = "cmd_move_workspace_to_output"
    /\ reply = SuccessReply
    /\ OnlyWorkspacesMoved # {}
    /\ nlines > 1
    /\ get_output_from_string(outputs, CurrentOutput(outputs, before, call.owindows),
                              call.args[1][1])
           # CurrentOutput(outputs, before, call.owindows)

====
